---- MODULE Spec2Model ----
(***************************************************************************)
(* dev-disp: the device registry of the server application (app.rs), the   *)
(* per-session controller (controller.rs), the transports, the encoder and *)
(* the utility types they are built on, as state machines.                 *)
(*                                                                         *)
(*   SessionSpec      one run of handle_display_host / screen_loop with    *)
(*                    its collaborators (transport, capture surface,       *)
(*                    encoder, clock, cancel channel) as the environment.  *)
(*   FairSessionSpec  SessionSpec plus the fairness the executor gives:    *)
(*                    an awaited call of the main task returns, a queued   *)
(*                    cancel message is received, time passes.             *)
(*   Spec             the registry: discovery snapshots, the per-candidate *)
(*                    waiter tasks, initialize_device, disconnect_device.  *)
(*   LockSpec         Spec plus the calls that wait on a full channel.     *)
(*   FairLockSpec     LockSpec with the executor's fairness.               *)
(*   TwoSourceSpec    Spec with two discoveries feeding the registry.      *)
(*   ApiSpec          Spec with the calls' return values kept.             *)
(*   WsSpec           the WebSocket transport: initialize() and            *)
(*                    get_display_config() against a peer.                 *)
(*   FairWsSpec       WsSpec with the executor's fairness.                 *)
(*   DiscSpec         the WebSocket discovery: the pre-init handshake of   *)
(*                    inbound connections and the candidates it lists.     *)
(*   EncSpec          the ffmpeg encoder's init over a configured          *)
(*                    catalogue and a preference list.                     *)
(*   FairEncSpec      EncSpec in which init runs on.                       *)
(*   ProbeSpec        the ffmpeg encoder's probe over a configured         *)
(*                    catalogue.                                           *)
(*   PollSpec         a polled discovery: one snapshot at construction     *)
(*                    and one after every interval.                        *)
(*   StatusSpec       the registry with its readers: get_device_status     *)
(*                    and stream_device_status.                            *)
(*   UsbSpec          the re-scan for an Android device restarted in       *)
(*                    accessory mode.                                      *)
(*   FairUsbSpec      UsbSpec in which the bring-up runs on.               *)
(*   SinkSpec         LatestValueSink over a stream with items ready.      *)
(*   CellSpec         ComputedCell with its invalidation stream.           *)
(*   SendSpec         send_screen_data of the WebSocket transports.        *)
(***************************************************************************)
EXTENDS Integers, Sequences, FiniteSets, TLC

VARIABLES
    \* ---- session controller (controller.rs) ----
    pc,                      \* position of the main (screen) task
    stopped,                 \* the shared stop flag (Arc<AtomicBool>)
    bad_transmission_start,  \* Option<Instant>: <<>> or <<elapsed seconds>>
    bad_transmission_count,  \* u32 failure count of the current streak
    err,                     \* Option<String> of screen_loop
    host_closes,             \* number of host.close() calls made
    screen_st,               \* capture handle: none / open / closed / dropped
    screen_result,           \* result of the screen task: none / Ok / Err
    bg_done,                 \* the transport's background task has finished
    bg_result,               \* its result: none / Ok / Err
    cancel_rx,               \* messages queued in the session's cancel channel
    last_poll,               \* outcome of the last get_ready()
    send_mode,               \* behaviour of the transport in this run
    screen_mode,             \* behaviour of the capture surface in this run
    scenario,                \* the statuses a scripted capture surface reports
    script_pos,              \* how many of them it has reported
    data,                    \* <<>> or <<bytes>>: what get_bytes() returned
    encoded_data,            \* <<>> or <<bytes encoded>>: what encode returned
    \* ---- observers of the environment (history) ----
    streak_fails,            \* consecutive send failures since the last success
    streak_age,              \* <<>> or <<seconds since the first of them>>
    had_reset,               \* a success has ended a failure streak
    setup_calls,             \* the calls of the set-up stages, with their results
    calls,                   \* the calls of screen_loop under a scripted surface
    \* ---- device registry (app.rs) ----
    available,               \* available_devices: discovery -> device -> ref
    in_use,                  \* in_use_devices: discovery -> device -> ref
    waiter,                  \* the per-candidate tasks spawned by a snapshot
    take_q,                  \* messages queued in each take channel
    cancel_q,                \* messages queued in each cancel channel
    take_blocked,            \* initialize_device calls waiting in take()
    cancel_blocked,          \* disconnect_device calls waiting in cancel()
    sources,                 \* the discoveries set up: id -> devices it can list
    call_result,             \* what the last initialize/disconnect call returned,
                             \* in the runs that look at the returns
    \* ---- WebSocket transport (websocket/transport.rs, ws_transport.rs) ----
    ws_impl,                 \* which of the two files' WsTransport is running
    ws_rx,                   \* frames of the peer not yet read by the background task
    rx_protocol_init,        \* queue of ResponseProtocolInit payloads
    rx_device_info,          \* queue of ResponseDeviceInformation payloads
    rx_core_display_params_update, \* queue of DisplayParametersUpdate payloads
    rx_core_message,         \* queue of core messages (ws_transport.rs)
    background_context,      \* Option<WsBackgroundContext>: TRUE for Some
    ws_bg,                   \* background task: not started / running / Err(..) result
    pumps,                   \* how many background loops have been started
    background_ret,          \* what a background() future without context returned
    \* ---- the WebSocket discovery (discovery.rs) ----
    conn_pc,                 \* per inbound connection: position of its pre_init task
    pre_reply,               \* per inbound connection: its reply to the pre-init request
    current_connections,     \* the connections held as candidates
    connections_update,      \* notifications queued for the discovery stream
    listed,                  \* the connections of the last snapshot the stream yielded
    \* ---- the ffmpeg encoder (ffmpeg_encoder.rs, configurations.rs) ----
    configuration,           \* FfmpegConfiguration.encoder_configurations
    preferred_encoders,      \* Option<Vec<EncoderPossibleConfiguration>> given to init
    encoders,                \* the iterator init / the probe is reading
    enc_pc,                  \* new / init / probe / Ok / Err / probed / panic
    attempts,                \* every configuration handed to the backend, with its outcome
    enc_state,               \* FfmpegEncoder.state: <<>> or the configuration retained
    init_result,             \* <<>> or what init returned
    \* ---- readers of the registry (app.rs: DevDispApiFacade) ----
    sub_pc,                  \* the status stream: none / initial / live
    sub_pending,             \* change notifications queued for the stream
    sub_events,              \* the events the stream has yielded: initial / change
    device_status,           \* <<>> or the status last handed to a reader
    \* ---- the Android accessory bring-up (android_accessory.rs) ----
    usb_impl,                \* which of the two crates' bring-up is running
    target_device_serial,    \* Option<&str>: <<>> or <<serial>> of the device opened
    usb_pc,                  \* wait / scan / open / claim / done
    retries_left,            \* the loop's counter
    usb_waits,               \* how many interval delays have completed
    usb_scans,               \* how many re-scans have been made
    usb_misses,              \* how many of them found no device
    usb_found,               \* <<>> or the device a re-scan found
    usb_result,              \* <<>> or what the bring-up returned, and from where
    \* ---- LatestValueSink (rust-util: latest_value_sink.rs) ----
    sink_kind,               \* the wrapped stream: open / fused / unfused
    sink_stream,             \* the items the wrapped stream has ready
    sink_ended,              \* the wrapped stream has returned None
    latest_value,            \* Option<T>: <<>> or <<item>>
    sink_calls,              \* every call made: what was ready, what it returned
    \* ---- ComputedCell (rust-util: computed_cell.rs) ----
    invalidate_rx,           \* notifications waiting on the invalidation stream
    cached_value,            \* Option<ComputedResult<T>>: <<>> or <<value>>
    cell_source,             \* what compute_fn returns now
    cell_computes,           \* how many times compute_fn has run
    cell_calls,              \* how many calls the cell has served
    cell_ret,                \* the last call and what it returned
    invalidated_since,       \* a notification arrived after the cached value was computed
    \* ---- send_screen_data of the WebSocket transports ----
    ws_tx,                   \* the messages given to the socket's sink
    send_calls,              \* how many send_screen_data calls were made
    send_ret,                \* the last call: its data and how it ended
    \* ---- PollingDeviceDiscovery (device_discovery.rs) ----
    poll_pc,                 \* position of the polling stream
    poll_devices,            \* what the wrapped discovery would list now
    poll_emitted,            \* every snapshot the stream has yielded
    poll_sleeps,             \* how many interval sleeps have completed
    ws_pc,                   \* position of the transport's caller
    init_ret,                \* what initialize() returned
    config_ret,              \* what get_display_config() returned
    \* ---- observers of the peer (history) ----
    peer_sent,               \* every frame the peer has sent
    init_answer,             \* <<>> or the peer's first frame after the init request
    peer_open                \* the peer keeps the connection open

scenVars == <<scenario, script_pos, data, encoded_data, calls>>

sessVars == <<pc, stopped, bad_transmission_start, bad_transmission_count, err,
              host_closes, screen_st, screen_result, bg_done, cancel_rx,
              last_poll, send_mode, screen_mode, streak_fails, streak_age,
              had_reset, bg_result, scenVars, setup_calls>>

regVars == <<available, in_use, waiter, take_q, cancel_q, take_blocked,
             cancel_blocked, sources, call_result>>

wsVars == <<ws_impl, ws_rx, rx_protocol_init, rx_device_info,
            rx_core_display_params_update, rx_core_message, ws_bg, ws_pc,
            init_ret, config_ret, peer_sent, init_answer, peer_open,
            background_context, pumps, background_ret>>

discVars == <<conn_pc, pre_reply, current_connections, connections_update,
              listed>>

encVars == <<configuration, preferred_encoders, encoders, enc_pc, attempts,
             enc_state, init_result>>

\* PollingDeviceDiscovery (device_discovery.rs)
pollVars == <<poll_pc, poll_devices, poll_emitted, poll_sleeps>>

\* get_device_status and stream_device_status (app.rs)
statVars == <<sub_pc, sub_pending, sub_events, device_status>>

\* connect_usb_android_accessory (android_accessory.rs)
usbVars == <<usb_impl, target_device_serial, usb_pc, retries_left, usb_waits,
             usb_scans, usb_misses, usb_found, usb_result>>

\* LatestValueSink (latest_value_sink.rs)
sinkVars == <<sink_kind, sink_stream, sink_ended, latest_value, sink_calls>>

\* ComputedCell (computed_cell.rs)
cellVars == <<invalidate_rx, cached_value, cell_source, cell_computes, cell_calls, cell_ret,
              invalidated_since>>

\* send_screen_data (websocket/transport.rs, websocket/ws_transport.rs)
sendVars == <<ws_tx, send_calls, send_ret>>

\* the libraries but the registry's readers
notStatLib == <<pollVars, usbVars, sinkVars, cellVars, sendVars>>
libVars == <<notStatLib, statVars>>

vars == <<sessVars, regVars, wsVars, discVars, encVars, libVars>>

\* what the actions of one part leave alone: the variables of the other parts
notSess == <<regVars, wsVars, discVars, encVars, libVars>>
notReg == <<sessVars, wsVars, discVars, encVars, libVars>>
notWs == <<sessVars, regVars, discVars, encVars, libVars>>
notDisc == <<sessVars, regVars, wsVars, encVars, libVars>>
notEnc == <<sessVars, regVars, wsVars, discVars, libVars>>
notRegStat == <<sessVars, wsVars, discVars, encVars, notStatLib>>
appVars == <<sessVars, regVars, wsVars, discVars, encVars, statVars>>

-----------------------------------------------------------------------------
(* Bounds of the model *)

\* Elapsed times saturate here (seconds); must exceed the 5 s window.
MaxAge == 6
\* The failure counters saturate here; must exceed the threshold of 5.
MaxCount == 6

(* Program constants *)

\* Duration::from_secs(5)
BadTransmissionWindowSecs == 5
\* bad_transmission_count >= 5
BadTransmissionThreshold == 5
\* mpsc::channel(1)
CancelCapacity == 1

Min(a, b) == IF a < b THEN a ELSE b

-----------------------------------------------------------------------------
(* Option<Instant>, kept as the time elapsed since the instant *)

\* start.elapsed()
Elapsed(start) == start[1]

\* Instant::now()
InstantNow == <<0>>

\* one second passes for a stored instant
Older(start) == IF start = <<>> THEN <<>> ELSE <<Min(start[1] + 1, MaxAge)>>

\* variant (not the code): the elapsed time of the streak is read as zero on every failure
BadTransmissionElapsed_AlwaysZero(start) == 0

\* if let Some(start) = bad_transmission_start { start.elapsed() } else { ZERO }
BadTransmissionElapsed(start) == IF start # <<>> THEN Elapsed(start) ELSE 0

\* variant (not the code): either condition alone ends the session
TooManyBadTransmissions_Or(elapsed, count) ==
    elapsed >= BadTransmissionWindowSecs \/ count >= BadTransmissionThreshold

\* bad_transmission_elapsed >= 5 s && bad_transmission_count >= 5
TooManyBadTransmissions(elapsed, count) ==
    elapsed >= BadTransmissionWindowSecs /\ count >= BadTransmissionThreshold

-----------------------------------------------------------------------------
(* The capture surface of a run: free, always ready, or following a script *)

\* const NOT_READY_DELAY: Duration = Duration::from_millis(100)
NOT_READY_DELAY == 100

\* a scripted surface reports at most this many NotReady before its frame
MaxNotReady == 3
\* the sizes of the frames get_bytes() hands out
FrameSizes == {512, 1024}

\* ScreenReadyStatus as the surface reports it, with the frame behind Ready
Status(st, n) == [status |-> st, bytes |-> n]

\* k times NotReady, then Ready once with n bytes
Script(k, n) ==
    [i \in 1..(k + 1) |-> IF i <= k THEN Status("NotReady", 0) ELSE Status("Ready", n)]

Scripts == {Script(k, n) : k \in 0..MaxNotReady, n \in FrameSizes}

Scripted == screen_mode = "script"

\* what a scripted surface reports next; Finished once the script is over
NextStatus ==
    IF script_pos < Len(scenario) THEN scenario[script_pos + 1]
                                  ELSE Status("Finished", 0)

\* screen.get_ready() may return Ok(st) now
SurfaceReports(st) ==
    \/ screen_mode = "any"
    \/ screen_mode = "always_ready" /\ st = "Ready"
    \/ Scripted /\ NextStatus.status = st

\* the sizes screen.get_bytes() may return now
BytesReported == IF Scripted THEN {NextStatus.bytes} ELSE FrameSizes

\* the surface has reported one more status
Reported == script_pos' = IF Scripted THEN script_pos + 1 ELSE script_pos

\* one call of screen_loop and its argument (ms slept, bytes handed over)
LoopCall(name, arg) == [call |-> name, arg |-> arg]

\* the call is kept in the history of a scripted run
Record(c) == calls' = IF Scripted THEN Append(calls, c) ELSE calls

-----------------------------------------------------------------------------
(* Session: initial state *)

SessionInit ==
    /\ pc = "initialize"
    /\ stopped = FALSE
    /\ bad_transmission_start = <<>>
    /\ bad_transmission_count = 0
    /\ err = "None"
    /\ host_closes = 0
    /\ screen_st = "none"
    /\ screen_result = "none"
    /\ bg_done = FALSE
    /\ bg_result = "none"
    /\ cancel_rx = 0
    /\ last_poll = "none"
    /\ send_mode \in {"any", "always_fail"}
    /\ \/ screen_mode \in {"any", "always_ready"} /\ scenario = <<>>
       \/ screen_mode = "script" /\ scenario \in Scripts
    /\ script_pos = 0
    /\ data = <<>>
    /\ encoded_data = <<>>
    /\ streak_fails = 0
    /\ streak_age = <<>>
    /\ had_reset = FALSE
    /\ setup_calls = <<>>
    /\ calls = <<>>

loopVars == <<bad_transmission_start, bad_transmission_count, streak_fails,
              streak_age, had_reset>>
envVars == <<send_mode, screen_mode, bg_result>>

\* one call of the main task and whether it returned Ok
Call(name, ok) == [call |-> name, ok |-> ok]

\* close_dev(&mut host); return Err((host, msg)) of the set-up stages
AbortSetup ==
    /\ host_closes' = host_closes + 1
    /\ screen_result' = "Err"
    /\ pc' = "task_done"
    /\ screen_st' = IF screen_st = "open" THEN "dropped" ELSE screen_st

-----------------------------------------------------------------------------
(* handle_display_host: the set-up stages of the main task *)

\* host.initialize() succeeds
InitializeOk ==
    /\ pc = "initialize"
    /\ pc' = "get_display_config"
    /\ setup_calls' = Append(setup_calls, Call("initialize", TRUE))
    /\ UNCHANGED <<notSess, stopped, loopVars, err, host_closes, screen_st, screen_result,
                   bg_done, cancel_rx, last_poll, envVars, scenVars>>

\* variant (not the code): a failed initialize() is tried again
InitializeErr_Retries ==
    /\ pc = "initialize"
    /\ pc' = "initialize"
    /\ Len(setup_calls) < 3
    /\ setup_calls' = Append(setup_calls, Call("initialize", FALSE))
    /\ UNCHANGED <<notSess, stopped, loopVars, err, host_closes, screen_st, screen_result,
                   bg_done, cancel_rx, last_poll, envVars, scenVars>>

\* host.initialize() fails: close the host, return Err
InitializeErr ==
    /\ pc = "initialize"
    /\ AbortSetup
    /\ setup_calls' = setup_calls \o <<Call("initialize", FALSE), Call("close", TRUE)>>
    /\ UNCHANGED <<notSess, stopped, loopVars, err, bg_done, cancel_rx, last_poll, envVars, scenVars>>

\* host.get_display_config() succeeds
GetDisplayConfigOk ==
    /\ pc = "get_display_config"
    /\ pc' = "notify_loading_screen"
    /\ setup_calls' = Append(setup_calls, Call("get_display_config", TRUE))
    /\ UNCHANGED <<notSess, stopped, loopVars, err, host_closes, screen_st, screen_result,
                   bg_done, cancel_rx, last_poll, envVars, scenVars>>

\* host.get_display_config() fails: close the host, return Err
GetDisplayConfigErr ==
    /\ pc = "get_display_config"
    /\ AbortSetup
    /\ setup_calls' = setup_calls \o <<Call("get_display_config", FALSE), Call("close", TRUE)>>
    /\ UNCHANGED <<notSess, stopped, loopVars, err, bg_done, cancel_rx, last_poll, envVars, scenVars>>

\* host.notify_loading_screen(): either result only logs, the task goes on
NotifyLoadingScreen ==
    /\ pc = "notify_loading_screen"
    /\ pc' = "get_screen"
    /\ setup_calls' = Append(setup_calls, Call("notify_loading_screen", TRUE))
    /\ UNCHANGED <<notSess, stopped, loopVars, err, host_closes, screen_st, screen_result,
                   bg_done, cancel_rx, last_poll, envVars, scenVars>>

\* screen_provider.get_screen(display_params) yields the capture handle
GetScreenOk ==
    /\ pc = "get_screen"
    /\ screen_st' = "open"
    /\ pc' = "create_encoder"
    /\ setup_calls' = Append(setup_calls, Call("get_screen", TRUE))
    /\ UNCHANGED <<notSess, stopped, loopVars, err, host_closes, screen_result,
                   bg_done, cancel_rx, last_poll, envVars, scenVars>>

\* get_screen fails: close the host, return Err
GetScreenErr ==
    /\ pc = "get_screen"
    /\ AbortSetup
    /\ setup_calls' = setup_calls \o <<Call("get_screen", FALSE), Call("close", TRUE)>>
    /\ UNCHANGED <<notSess, stopped, loopVars, err, bg_done, cancel_rx, last_poll, envVars, scenVars>>

\* encoder_provider.create_encoder() succeeds
CreateEncoderOk ==
    /\ pc = "create_encoder"
    /\ pc' = "encoder_init"
    /\ setup_calls' = Append(setup_calls, Call("create_encoder", TRUE))
    /\ UNCHANGED <<notSess, stopped, loopVars, err, host_closes, screen_st, screen_result,
                   bg_done, cancel_rx, last_poll, envVars, scenVars>>

\* create_encoder() fails: close_dev(host) and return; the screen is dropped
CreateEncoderErr ==
    /\ pc = "create_encoder"
    /\ AbortSetup
    /\ setup_calls' = setup_calls \o <<Call("create_encoder", FALSE), Call("close", TRUE)>>
    /\ UNCHANGED <<notSess, stopped, loopVars, err, bg_done, cancel_rx, last_poll, envVars, scenVars>>

\* encoder.init(..) succeeds: enter screen_loop
EncoderInitOk ==
    /\ pc = "encoder_init"
    /\ pc' = "poll"
    /\ setup_calls' = Append(setup_calls, Call("encoder_init", TRUE))
    /\ UNCHANGED <<notSess, stopped, loopVars, err, host_closes, screen_st, screen_result,
                   bg_done, cancel_rx, last_poll, envVars, scenVars>>

\* encoder.init(..) fails: close_dev(host) and return; the screen is dropped
EncoderInitErr ==
    /\ pc = "encoder_init"
    /\ AbortSetup
    /\ setup_calls' = setup_calls \o <<Call("encoder_init", FALSE), Call("close", TRUE)>>
    /\ UNCHANGED <<notSess, stopped, loopVars, err, bg_done, cancel_rx, last_poll, envVars, scenVars>>

-----------------------------------------------------------------------------
(* screen_loop *)

\* get_ready() = Ok(Finished): set the stop flag, break
GetReadyFinished ==
    /\ pc = "poll"
    /\ SurfaceReports("Finished")
    /\ Reported
    /\ last_poll' = "Finished"
    /\ stopped' = TRUE
    /\ pc' = "close_host"
    /\ UNCHANGED <<notSess, loopVars, err, host_closes, screen_st, screen_result,
                   bg_done, cancel_rx, envVars,
                   scenario, data, encoded_data, calls, setup_calls>>

\* variant (not the code): NotReady polls again at once, without the delay
GetReadyNotReady_NoDelay ==
    /\ pc = "poll"
    /\ SurfaceReports("NotReady")
    /\ Reported
    /\ last_poll' = "NotReady"
    /\ pc' = "poll"
    /\ UNCHANGED <<notSess, stopped, loopVars, err, host_closes, screen_st, screen_result,
                   bg_done, cancel_rx, envVars,
                   scenario, data, encoded_data, calls, setup_calls>>

\* get_ready() = Ok(NotReady): start the fixed delay
GetReadyNotReady ==
    /\ pc = "poll"
    /\ SurfaceReports("NotReady")
    /\ Reported
    /\ last_poll' = "NotReady"
    /\ pc' = "sleep"
    /\ UNCHANGED <<notSess, stopped, loopVars, err, host_closes, screen_st, screen_result,
                   bg_done, cancel_rx, envVars,
                   scenario, data, encoded_data, calls, setup_calls>>

\* Delay::new(NOT_READY_DELAY) is over: load the stop flag, break if it is set
NotReadyDelay ==
    /\ pc = "sleep"
    /\ Record(LoopCall("sleep", NOT_READY_DELAY))
    /\ pc' = IF stopped THEN "close_host" ELSE "poll"
    /\ UNCHANGED <<notSess, stopped, loopVars, err, host_closes, screen_st, screen_result,
                   bg_done, cancel_rx, last_poll, envVars,
                   scenario, script_pos, data, encoded_data, setup_calls>>

\* get_ready() = Ok(Ready) and get_bytes() = Some(data): go on to encode
GetReadyBytes ==
    /\ pc = "poll"
    /\ SurfaceReports("Ready")
    /\ \E n \in BytesReported : data' = <<n>>
    /\ Reported
    /\ last_poll' = "Ready"
    /\ pc' = "encode"
    /\ UNCHANGED <<notSess, stopped, loopVars, err, host_closes, screen_st, screen_result,
                   bg_done, cancel_rx, envVars,
                   scenario, encoded_data, calls, setup_calls>>

\* get_ready() = Ok(Ready) but get_bytes() = None: log, next iteration
GetReadyNoBytes ==
    /\ pc = "poll"
    /\ screen_mode = "any"
    /\ last_poll' = "ReadyNoBytes"
    /\ pc' = "poll"
    /\ UNCHANGED <<notSess, stopped, loopVars, err, host_closes, screen_st, screen_result,
                   bg_done, cancel_rx, envVars,
                   scenVars, setup_calls>>

\* get_ready() = Err(e): err is recorded; the match arm has no break
GetReadyErr ==
    /\ pc = "poll"
    /\ screen_mode = "any"
    /\ last_poll' = "Err"
    /\ err' = "Virtual screen runtime error"
    /\ pc' = "poll"
    /\ UNCHANGED <<notSess, stopped, loopVars, host_closes, screen_st, screen_result,
                   bg_done, cancel_rx, envVars,
                   scenVars, setup_calls>>

\* encoder.encode(data) succeeds with the encoding of data
EncodeOk ==
    /\ pc = "encode"
    /\ Record(LoopCall("encode", data[1]))
    /\ encoded_data' = data
    /\ data' = <<>>
    /\ pc' = "send"
    /\ UNCHANGED <<notSess, stopped, loopVars, err, host_closes, screen_st, screen_result,
                   bg_done, cancel_rx, last_poll, envVars,
                   scenario, script_pos, setup_calls>>

\* variant (not the code): a failed encode is logged and the loop goes on
EncodeErr_Continues ==
    /\ pc = "encode"
    /\ Record(LoopCall("encode", data[1]))
    /\ data' = <<>>
    /\ err' = "Failed to encode screen data"
    /\ pc' = "poll"
    /\ UNCHANGED <<notSess, stopped, loopVars, host_closes, screen_st, screen_result,
                   bg_done, cancel_rx, last_poll, envVars,
                   scenario, script_pos, encoded_data, setup_calls>>

\* encoder.encode(data) fails: record the error, break
EncodeErr ==
    /\ pc = "encode"
    /\ Record(LoopCall("encode", data[1]))
    /\ data' = <<>>
    /\ err' = "Failed to encode screen data"
    /\ pc' = "close_host"
    /\ UNCHANGED <<notSess, stopped, loopVars, host_closes, screen_st, screen_result,
                   bg_done, cancel_rx, last_poll, envVars,
                   scenario, script_pos, encoded_data, setup_calls>>

\* variant (not the code): a successful send leaves the failure count as it is
SendOk_KeepCount ==
    /\ pc = "send"
    /\ send_mode = "any"
    /\ Record(LoopCall("send_screen_data", encoded_data[1]))
    /\ encoded_data' = <<>>
    /\ bad_transmission_start' = <<>>
    /\ bad_transmission_count' = bad_transmission_count
    /\ had_reset' = (had_reset \/ streak_fails > 0)
    /\ streak_fails' = 0
    /\ streak_age' = <<>>
    /\ pc' = "poll"
    /\ UNCHANGED <<notSess, stopped, err, host_closes, screen_st, screen_result,
                   bg_done, cancel_rx, last_poll, envVars,
                   scenario, script_pos, data, setup_calls>>

\* host.send_screen_data(encoded) succeeds: reset the streak
SendOk ==
    /\ pc = "send"
    /\ send_mode = "any"
    /\ Record(LoopCall("send_screen_data", encoded_data[1]))
    /\ encoded_data' = <<>>
    /\ bad_transmission_start' = <<>>
    /\ bad_transmission_count' = 0
    /\ had_reset' = (had_reset \/ streak_fails > 0)
    /\ streak_fails' = 0
    /\ streak_age' = <<>>
    /\ pc' = "poll"
    /\ UNCHANGED <<notSess, stopped, err, host_closes, screen_st, screen_result,
                   bg_done, cancel_rx, last_poll, envVars,
                   scenario, script_pos, data, setup_calls>>

\* host.send_screen_data(encoded) fails: start or continue the streak and
\* end the session once it is both old and long enough
SendErr ==
    /\ pc = "send"
    /\ Record(LoopCall("send_screen_data", encoded_data[1]))
    /\ encoded_data' = <<>>
    /\ LET elapsed == BadTransmissionElapsed(bad_transmission_start)
           count == Min(bad_transmission_count + 1, MaxCount)
       IN  /\ bad_transmission_start' =
                 IF bad_transmission_start # <<>> THEN bad_transmission_start
                                                  ELSE InstantNow
           /\ bad_transmission_count' = count
           /\ IF TooManyBadTransmissions(elapsed, count)
              THEN /\ stopped' = TRUE
                   /\ err' = "Too many bad transmissions to display host"
                   /\ pc' = "close_host"
              ELSE /\ pc' = "poll"
                   /\ UNCHANGED <<stopped, err>>
    /\ streak_fails' = Min(streak_fails + 1, MaxCount)
    /\ streak_age' = IF streak_age # <<>> THEN streak_age ELSE <<0>>
    /\ UNCHANGED <<notSess, had_reset, host_closes, screen_st, screen_result,
                   bg_done, cancel_rx, last_poll, envVars,
                   scenario, script_pos, data, setup_calls>>

\* after the loop: host.close()
CloseHost ==
    /\ pc = "close_host"
    /\ host_closes' = host_closes + 1
    /\ pc' = "close_screen"
    /\ UNCHANGED <<notSess, stopped, loopVars, err, screen_st, screen_result,
                   bg_done, cancel_rx, last_poll, envVars,
                   scenVars, setup_calls>>

\* after the loop: screen.close(), then Err((host, e)) or Ok(host)
CloseScreen ==
    /\ pc = "close_screen"
    /\ screen_st' = "closed"
    /\ screen_result' = IF err # "None" THEN "Err" ELSE "Ok"
    /\ pc' = "task_done"
    /\ UNCHANGED <<notSess, stopped, loopVars, err, host_closes,
                   bg_done, cancel_rx, last_poll, envVars,
                   scenVars, setup_calls>>

-----------------------------------------------------------------------------
(* The tasks joined with the main task, and the environment *)

Running == pc # "returned"

\* variant (not the code): the background task's end stores the stop flag
BackgroundFinish_StoresStop ==
    /\ Running
    /\ ~bg_done
    /\ bg_done' = TRUE
    /\ bg_result' \in {"Ok", "Err"}
    /\ stopped' = TRUE
    /\ UNCHANGED <<notSess, pc, loopVars, err, host_closes, screen_st,
                   screen_result, cancel_rx, last_poll, send_mode, screen_mode,
                   scenVars, setup_calls>>

\* the transport's background future resolves (with either result); the
\* result is logged and kept for join!, the stop flag is not stored
BackgroundFinish ==
    /\ Running
    /\ ~bg_done
    /\ bg_done' = TRUE
    /\ bg_result' \in {"Ok", "Err"}
    /\ UNCHANGED <<notSess, pc, stopped, loopVars, err, host_closes, screen_st,
                   screen_result, cancel_rx, last_poll, send_mode, screen_mode,
                   scenVars, setup_calls>>

\* join!(background_task, screen_task) completes: return screen_result;
\* the cancel receiver is dropped with the call
Join ==
    /\ pc = "task_done"
    /\ bg_done
    /\ pc' = "returned"
    /\ cancel_rx' = 0
    /\ UNCHANGED <<notSess, stopped, loopVars, err, host_closes, screen_st,
                   screen_result, bg_done, last_poll, envVars,
                   scenVars, setup_calls>>

\* InUseDeviceRef::cancel(): one message into the session's cancel channel
CancelSend ==
    /\ Running
    /\ cancel_rx < CancelCapacity
    /\ cancel_rx' = cancel_rx + 1
    /\ UNCHANGED <<notSess, pc, stopped, loopVars, err, host_closes, screen_st,
                   screen_result, bg_done, last_poll, envVars,
                   scenVars, setup_calls>>

\* the session receives a cancel message and sets its stop flag
CancelPump ==
    /\ Running
    /\ cancel_rx > 0
    /\ cancel_rx' = cancel_rx - 1
    /\ stopped' = TRUE
    /\ UNCHANGED <<notSess, pc, loopVars, err, host_closes, screen_st,
                   screen_result, bg_done, last_poll, envVars,
                   scenVars, setup_calls>>

\* one second passes (Instant is monotonic; stored instants grow older)
Tick ==
    /\ Running
    /\ \/ bad_transmission_start # Older(bad_transmission_start)
       \/ streak_age # Older(streak_age)
    /\ bad_transmission_start' = Older(bad_transmission_start)
    /\ streak_age' = Older(streak_age)
    /\ UNCHANGED <<notSess, pc, stopped, bad_transmission_count, streak_fails, had_reset,
                   err, host_closes, screen_st, screen_result, bg_done,
                   cancel_rx, last_poll, envVars,
                   scenVars, setup_calls>>

\* the steps of the main task
MainTask ==
    \/ InitializeOk \/ InitializeErr
    \/ GetDisplayConfigOk \/ GetDisplayConfigErr
    \/ NotifyLoadingScreen
    \/ GetScreenOk \/ GetScreenErr
    \/ CreateEncoderOk \/ CreateEncoderErr
    \/ EncoderInitOk \/ EncoderInitErr
    \/ GetReadyFinished \/ GetReadyNotReady \/ NotReadyDelay
    \/ GetReadyBytes \/ GetReadyNoBytes \/ GetReadyErr
    \/ EncodeOk \/ EncodeErr
    \/ SendOk \/ SendErr
    \/ CloseHost \/ CloseScreen

-----------------------------------------------------------------------------
(* The device registry: App *)

\* bounds of the registry model
\* the notifications counted in the status stream's receiver
MaxPending == 2
\* the status stream is followed for this many events
MaxStatusEvents == 2
MaxTasks == 2
MaxBlocked == 1

\* mpsc::channel(1) of ReadyDeviceRef::new
TakeCapacity == 1

DiscoveryIds == {"usb", "ws"}
DeviceIds == {"A", "B"}
Tasks == 1..MaxTasks
NoId == "-"
\* no entry under a key of a device map
NoRef == 0

DevIndex(d) == IF d = "A" THEN 1 ELSE 2
Unused == [st |-> "unused", disc |-> NoId, dev |-> NoId]

\* App::new: both maps empty, nothing spawned
RegistryInit ==
    /\ available = [s \in DiscoveryIds |-> [d \in DeviceIds |-> NoRef]]
    /\ in_use = [s \in DiscoveryIds |-> [d \in DeviceIds |-> NoRef]]
    /\ waiter = [t \in Tasks |-> Unused]
    /\ take_q = [t \in Tasks |-> 0]
    /\ cancel_q = [t \in Tasks |-> 0]
    /\ take_blocked = [t \in Tasks |-> 0]
    /\ cancel_blocked = [t \in Tasks |-> 0]

\* task slots that hold no task and no caller
FreeTasks ==
    {t \in Tasks : waiter[t].st = "unused" /\ take_blocked[t] = 0
                   /\ cancel_blocked[t] = 0}
KthSmallest(S, k) == CHOOSE x \in S : Cardinality({y \in S : y <= x}) = k
Rank(d, devs) == Cardinality({e \in devs : DevIndex(e) <= DevIndex(d)})

\* a read guard of available_devices is held by every call waiting in take()
AvailReaders == \E t \in Tasks : take_blocked[t] > 0
\* a read guard of in_use_devices is held by every call waiting in cancel()
InUseReaders == \E t \in Tasks : cancel_blocked[t] > 0
\* RwLock::write() is granted when no guard is out
AvailWriteFree == ~AvailReaders
InUseWriteFree == ~InUseReaders
\* RwLock is fair: a reader queues behind a writer that is already waiting
AvailReadFree == ~(AvailReaders /\ \E t \in Tasks : waiter[t].st = "rm_available")
InUseReadFree ==
    ~(InUseReaders /\ \E t \in Tasks :
          waiter[t].st \in {"insert_in_use", "rm_in_use_session", "rm_in_use_connect"})

\* devices_change_tx.send(()): one notification for the receiver of the
\* status stream, if there is one
DevicesChangeSend ==
    /\ sub_pending' = IF sub_pc = "none" THEN sub_pending
                                         ELSE Min(sub_pending + 1, MaxPending)
    /\ UNCHANGED <<sub_pc, sub_events, device_status>>

\* some take_tx of task t's channel is alive
TakeSenders(t) ==
    \/ \E s \in DiscoveryIds, d \in DeviceIds : available[s][d] = t
    \/ take_blocked[t] > 0
\* take_rx lives as long as the waiter task
TakeRxAlive(t) == waiter[t].st # "unused"
\* cancel_rx is created before the in_use insert and moved into the session
CancelRxAlive(t) == waiter[t].st \in {"connect", "session", "rm_in_use_connect"}

\* if take_rx.recv().await.is_none() { return; }: a waiter whose channel is
\* empty and has lost its last sender returns without touching the maps
\* (w: the waiters, av: the available map after the senders were dropped)
Gone(t, w, av) ==
    /\ w[t].st = "wait_take"
    /\ take_q[t] = 0
    /\ take_blocked[t] = 0
    /\ \A s \in DiscoveryIds, d \in DeviceIds : av[s][d] # t
Reap(w, av) == [t \in Tasks |-> IF Gone(t, w, av) THEN Unused ELSE w[t]]

\* the caller's view of a return value v: kept in the runs that look at
\* the returns (ApiSpec), not looked at in the others
NotLooked == "not looked at"
Returned(v) == IF call_result = NotLooked THEN call_result ELSE v

\* Result<(), ()> of initialize_device and disconnect_device
\* Ok(())
OkUnit == "Ok"
\* .ok_or(())? on a missing entry
NotFoundError == "Err"
\* .map_err(|_| ())? on a closed channel
SignalFailedError == "Err"

\* variant (not the code): the entries of devices that are not listed stay
SnapshotEntry_Merge(s, d, devs, id) == IF d \in devs THEN id ELSE available[s][d]

\* entry.clear(); then entry.insert(id, device_ref) for each listed device
SnapshotEntry(s, d, devs, id) == IF d \in devs THEN id ELSE NoRef

\* task slots free once the snapshot for s has dropped the old candidates
FreeAfterClear(s) ==
    LET cleared == [available EXCEPT ![s] = [d \in DeviceIds |-> NoRef]]
    IN  FreeTasks \cup {t \in Tasks : Gone(t, waiter, cleared)}

\* variant (not the code): a snapshot also drops the in_use entries of the
\* devices it does not list
Snapshot_PrunesInUse(s, devs) ==
    /\ s \in DOMAIN sources
    /\ devs \subseteq sources[s]
    /\ AvailWriteFree
    /\ Cardinality(FreeAfterClear(s)) >= Cardinality(devs)
    /\ LET free == FreeAfterClear(s)
           id(d) == KthSmallest(free, Rank(d, devs))
           new == {id(d) : d \in devs}
           av == [available EXCEPT ![s] =
                  [d \in DeviceIds |->
                      SnapshotEntry(s, d, devs, IF d \in devs THEN id(d) ELSE NoRef)]]
           spawned == [t \in Tasks |->
                  IF t \in new
                  THEN [st |-> "wait_take", disc |-> s,
                        dev |-> CHOOSE d \in devs : id(d) = t]
                  ELSE IF t \in free THEN Unused ELSE waiter[t]]
       IN  /\ available' = av
           /\ waiter' = Reap(spawned, av)
    /\ in_use' = [in_use EXCEPT ![s] =
                     [d \in DeviceIds |-> IF d \in devs THEN in_use[s][d] ELSE NoRef]]
    /\ UNCHANGED <<take_q, cancel_q, take_blocked, cancel_blocked, sources,
                   call_result, notReg>>

\* while let Some(devices) = discovery.next().await { .. }: one snapshot
Snapshot(s, devs) ==
    /\ s \in DOMAIN sources
    /\ devs \subseteq sources[s]
    /\ AvailWriteFree
    /\ Cardinality(FreeAfterClear(s)) >= Cardinality(devs)
    /\ LET free == FreeAfterClear(s)
           id(d) == KthSmallest(free, Rank(d, devs))
           new == {id(d) : d \in devs}
           av == [available EXCEPT ![s] =
                  [d \in DeviceIds |->
                      SnapshotEntry(s, d, devs, IF d \in devs THEN id(d) ELSE NoRef)]]
           spawned == [t \in Tasks |->
                  IF t \in new
                  THEN [st |-> "wait_take", disc |-> s,
                        dev |-> CHOOSE d \in devs : id(d) = t]
                  ELSE IF t \in free THEN Unused ELSE waiter[t]]
       IN  /\ available' = av
           /\ waiter' = Reap(spawned, av)
    /\ UNCHANGED <<in_use, take_q, cancel_q, take_blocked, cancel_blocked, sources,
                   call_result, notRegStat>>
    /\ DevicesChangeSend

\* initialize_device: the entry is found and take() sends at once
InitializeDevice(s, d) ==
    /\ AvailReadFree
    /\ available[s][d] # NoRef
    /\ LET t == available[s][d]
       IN  /\ TakeRxAlive(t)
           /\ take_q[t] < TakeCapacity
           /\ take_q' = [take_q EXCEPT ![t] = @ + 1]
    /\ call_result' = Returned(OkUnit)
    /\ UNCHANGED <<available, in_use, waiter, cancel_q, take_blocked,
                   cancel_blocked, sources, notReg>>

\* initialize_device: the channel is full, the call waits holding its guard
InitializeDeviceBlocks(s, d) ==
    /\ AvailReadFree
    /\ available[s][d] # NoRef
    /\ LET t == available[s][d]
       IN  /\ TakeRxAlive(t)
           /\ take_q[t] >= TakeCapacity
           /\ take_blocked[t] < MaxBlocked
           /\ take_blocked' = [take_blocked EXCEPT ![t] = @ + 1]
    /\ UNCHANGED <<available, in_use, waiter, take_q, cancel_q,
                   cancel_blocked, sources,
                   call_result, notReg>>

\* a waiting take() completes: the message is queued, or the channel closed
InitializeDeviceResumes(t) ==
    /\ take_blocked[t] > 0
    /\ take_q[t] < TakeCapacity \/ ~TakeRxAlive(t)
    /\ take_blocked' = [take_blocked EXCEPT ![t] = @ - 1]
    /\ take_q' = IF TakeRxAlive(t) THEN [take_q EXCEPT ![t] = @ + 1] ELSE take_q
    /\ call_result' = Returned(IF TakeRxAlive(t) THEN OkUnit ELSE SignalFailedError)
    /\ UNCHANGED <<available, in_use, waiter, cancel_q, cancel_blocked, sources, notReg>>

\* initialize_device: no such entry, ok_or(())? returns Err
InitializeDeviceNotFound(s, d) ==
    /\ AvailReadFree
    /\ available[s][d] = NoRef
    /\ call_result' = Returned(NotFoundError)
    /\ UNCHANGED <<available, in_use, waiter, take_q, cancel_q, take_blocked,
                   cancel_blocked, sources, notReg>>

\* variant (not the code): disconnect_device also takes the entry out of in_use
DisconnectDevice_RemovesEntry(s, d) ==
    /\ InUseReadFree
    /\ in_use[s][d] # NoRef
    /\ LET t == in_use[s][d]
       IN  /\ CancelRxAlive(t)
           /\ cancel_q[t] < CancelCapacity
           /\ cancel_q' = [cancel_q EXCEPT ![t] = @ + 1]
    /\ in_use' = [in_use EXCEPT ![s][d] = NoRef]
    /\ call_result' = Returned(OkUnit)
    /\ UNCHANGED <<available, waiter, take_q, take_blocked,
                   cancel_blocked, sources, notReg>>

\* disconnect_device: the entry is found and cancel() sends at once
DisconnectDevice(s, d) ==
    /\ InUseReadFree
    /\ in_use[s][d] # NoRef
    /\ LET t == in_use[s][d]
       IN  /\ CancelRxAlive(t)
           /\ cancel_q[t] < CancelCapacity
           /\ cancel_q' = [cancel_q EXCEPT ![t] = @ + 1]
    /\ call_result' = Returned(OkUnit)
    /\ UNCHANGED <<available, in_use, waiter, take_q, take_blocked,
                   cancel_blocked, sources, notReg>>

\* disconnect_device: the channel is full, the call waits holding its guard
DisconnectDeviceBlocks(s, d) ==
    /\ InUseReadFree
    /\ in_use[s][d] # NoRef
    /\ LET t == in_use[s][d]
       IN  /\ CancelRxAlive(t)
           /\ cancel_q[t] >= CancelCapacity
           /\ cancel_blocked[t] < MaxBlocked
           /\ cancel_blocked' = [cancel_blocked EXCEPT ![t] = @ + 1]
    /\ UNCHANGED <<available, in_use, waiter, take_q, cancel_q,
                   take_blocked, sources,
                   call_result, notReg>>

\* a waiting cancel() completes: the message is queued, or the channel closed
DisconnectDeviceResumes(t) ==
    /\ cancel_blocked[t] > 0
    /\ cancel_q[t] < CancelCapacity \/ ~CancelRxAlive(t)
    /\ cancel_blocked' = [cancel_blocked EXCEPT ![t] = @ - 1]
    /\ cancel_q' = IF CancelRxAlive(t) THEN [cancel_q EXCEPT ![t] = @ + 1]
                                       ELSE cancel_q
    /\ call_result' = Returned(IF CancelRxAlive(t) THEN OkUnit ELSE SignalFailedError)
    /\ UNCHANGED <<available, in_use, waiter, take_q, take_blocked, sources, notReg>>

\* disconnect_device: no such entry, ok_or(())? returns Err
DisconnectDeviceNotFound(s, d) ==
    /\ InUseReadFree
    /\ in_use[s][d] = NoRef
    /\ call_result' = Returned(NotFoundError)
    /\ UNCHANGED <<available, in_use, waiter, take_q, cancel_q, take_blocked,
                   cancel_blocked, sources, notReg>>

\* disconnect_device: the receiver is gone, cancel() returns Err
DisconnectDeviceSignalFailed(s, d) ==
    /\ InUseReadFree
    /\ in_use[s][d] # NoRef
    /\ ~CancelRxAlive(in_use[s][d])
    /\ call_result' = Returned(SignalFailedError)
    /\ UNCHANGED <<available, in_use, waiter, take_q, cancel_q, take_blocked,
                   cancel_blocked, sources, notReg>>

\* take_rx.recv() yields the take message
TaskRecvTake(t) ==
    /\ waiter[t].st = "wait_take"
    /\ take_q[t] > 0
    /\ take_q' = [take_q EXCEPT ![t] = @ - 1]
    /\ waiter' = [waiter EXCEPT ![t].st = "rm_available"]
    /\ UNCHANGED <<available, in_use, cancel_q, take_blocked, cancel_blocked,
                   sources,
                   call_result, notReg>>

\* available_devices.write(): devices_map.remove(&info.id)
TaskRemoveAvailable(t) ==
    /\ waiter[t].st = "rm_available"
    /\ AvailWriteFree
    /\ LET av == [available EXCEPT ![waiter[t].disc][waiter[t].dev] = NoRef]
       IN  /\ available' = av
           /\ waiter' = Reap([waiter EXCEPT ![t].st = "insert_in_use"], av)
    /\ UNCHANGED <<in_use, take_q, cancel_q, take_blocked, cancel_blocked,
                   sources,
                   call_result, notReg>>

\* in_use_devices.write(): insert(info.id, in_use_device_ref); notify
TaskInsertInUse(t) ==
    /\ waiter[t].st = "insert_in_use"
    /\ InUseWriteFree
    /\ in_use' = [in_use EXCEPT ![waiter[t].disc][waiter[t].dev] = t]
    /\ waiter' = [waiter EXCEPT ![t].st = "connect"]
    /\ UNCHANGED <<available, take_q, cancel_q, take_blocked, cancel_blocked,
                   sources,
                   call_result, notRegStat>>
    /\ DevicesChangeSend

\* device.connect() = Ok(display): handle_display_host starts
TaskConnectOk(t) ==
    /\ waiter[t].st = "connect"
    /\ waiter' = [waiter EXCEPT ![t].st = "session"]
    /\ UNCHANGED <<available, in_use, take_q, cancel_q, take_blocked,
                   cancel_blocked, sources,
                   call_result, notReg>>

\* device.connect() = Err(e)
TaskConnectErr(t) ==
    /\ waiter[t].st = "connect"
    /\ waiter' = [waiter EXCEPT ![t].st = "rm_in_use_connect"]
    /\ UNCHANGED <<available, in_use, take_q, cancel_q, take_blocked,
                   cancel_blocked, sources,
                   call_result, notReg>>

\* the running session takes a message from its cancel channel
TaskCancelRecv(t) ==
    /\ waiter[t].st = "session"
    /\ cancel_q[t] > 0
    /\ cancel_q' = [cancel_q EXCEPT ![t] = @ - 1]
    /\ UNCHANGED <<available, in_use, waiter, take_q, take_blocked,
                   cancel_blocked, sources,
                   call_result, notReg>>

\* handle_display_host returns (Ok or Err); its cancel receiver is dropped
TaskSessionReturns(t) ==
    /\ waiter[t].st = "session"
    /\ waiter' = [waiter EXCEPT ![t].st = "rm_in_use_session"]
    /\ cancel_q' = [cancel_q EXCEPT ![t] = 0]
    /\ UNCHANGED <<available, in_use, take_q, take_blocked, cancel_blocked,
                   sources,
                   call_result, notReg>>

\* in_use_devices.write(): devices_map.remove(&info.id); notify; task ends
TaskRemoveInUse(t) ==
    /\ waiter[t].st \in {"rm_in_use_session", "rm_in_use_connect"}
    /\ InUseWriteFree
    /\ in_use' = [in_use EXCEPT ![waiter[t].disc][waiter[t].dev] = NoRef]
    /\ waiter' = [waiter EXCEPT ![t] = Unused]
    /\ take_q' = [take_q EXCEPT ![t] = 0]
    /\ cancel_q' = [cancel_q EXCEPT ![t] = 0]
    /\ UNCHANGED <<available, take_blocked, cancel_blocked, sources,
                   call_result, notRegStat>>
    /\ DevicesChangeSend

\* the registry with every channel send completing at once
Next ==
    \/ \E s \in DiscoveryIds, devs \in SUBSET DeviceIds : Snapshot(s, devs)
    \/ \E s \in DiscoveryIds, d \in DeviceIds : InitializeDevice(s, d)
    \/ \E s \in DiscoveryIds, d \in DeviceIds : InitializeDeviceNotFound(s, d)
    \/ \E s \in DiscoveryIds, d \in DeviceIds : DisconnectDevice(s, d)
    \/ \E s \in DiscoveryIds, d \in DeviceIds : DisconnectDeviceNotFound(s, d)
    \/ \E s \in DiscoveryIds, d \in DeviceIds : DisconnectDeviceSignalFailed(s, d)
    \/ \E t \in Tasks : TaskRecvTake(t)
    \/ \E t \in Tasks : TaskRemoveAvailable(t)
    \/ \E t \in Tasks : TaskInsertInUse(t)
    \/ \E t \in Tasks : TaskConnectOk(t)
    \/ \E t \in Tasks : TaskConnectErr(t)
    \/ \E t \in Tasks : TaskCancelRecv(t)
    \/ \E t \in Tasks : TaskSessionReturns(t)
    \/ \E t \in Tasks : TaskRemoveInUse(t)

\* the calls that find their channel full and wait, holding their read guard
WaitingCalls ==
    \/ \E s \in DiscoveryIds, d \in DeviceIds : InitializeDeviceBlocks(s, d)
    \/ \E t \in Tasks : InitializeDeviceResumes(t)
    \/ \E s \in DiscoveryIds, d \in DeviceIds : DisconnectDeviceBlocks(s, d)
    \/ \E t \in Tasks : DisconnectDeviceResumes(t)

LockNext == Next \/ WaitingCalls

-----------------------------------------------------------------------------
(* The readers of the registry: get_device_status, stream_device_status *)

\* DeviceCollectionStatus { connectable_devices, in_use_devices } as the
\* two maps list them
DeviceCollectionStatus ==
    [connectable_devices |->
        {p \in DiscoveryIds \X DeviceIds : available[p[1]][p[2]] # NoRef},
     in_use_devices |->
        {p \in DiscoveryIds \X DeviceIds : in_use[p[1]][p[2]] # NoRef}]

\* tokio::join!(available_devices.read(), in_use_devices.read()) is granted
ReadGuards == AvailReadFree /\ InUseReadFree

\* App::new: no status stream, nothing read
StatusIdle ==
    /\ sub_pc = "none"
    /\ sub_pending = 0
    /\ sub_events = <<>>
    /\ device_status = <<>>

\* get_device_status: both maps read under their read guards
GetDeviceStatus ==
    /\ ReadGuards
    /\ device_status' = <<DeviceCollectionStatus>>
    /\ UNCHANGED <<sessVars, regVars, wsVars, discVars, encVars, notStatLib,
                   sub_pc, sub_pending, sub_events>>

\* variant (not the code): the stream is the broadcast receiver alone
StreamDeviceStatus_NoInitial ==
    /\ sub_pc = "none"
    /\ sub_pc' = "live"
    /\ UNCHANGED <<sessVars, regVars, wsVars, discVars, encVars, notStatLib,
                   sub_pending, sub_events, device_status>>

\* stream_device_status: subscribe, and put once(Ok(())) before the receiver
StreamDeviceStatus ==
    /\ sub_pc = "none"
    /\ sub_pc' = "initial"
    /\ UNCHANGED <<sessVars, regVars, wsVars, discVars, encVars, notStatLib,
                   sub_pending, sub_events, device_status>>

\* the stream's first item, the one of once(..): the maps are read
StatusStreamInitial ==
    /\ sub_pc = "initial"
    /\ ReadGuards
    /\ sub_events' = Append(sub_events, "initial")
    /\ device_status' = <<DeviceCollectionStatus>>
    /\ sub_pc' = "live"
    /\ UNCHANGED <<sessVars, regVars, wsVars, discVars, encVars, notStatLib,
                   sub_pending>>

\* a later item: one notification of the receiver, then the maps are read
StatusStreamChange ==
    /\ sub_pc = "live"
    /\ sub_pending > 0
    /\ Len(sub_events) < MaxStatusEvents
    /\ ReadGuards
    /\ sub_pending' = sub_pending - 1
    /\ sub_events' = Append(sub_events, "change")
    /\ device_status' = <<DeviceCollectionStatus>>
    /\ UNCHANGED <<sessVars, regVars, wsVars, discVars, encVars, notStatLib,
                   sub_pc>>

Readers ==
    \/ GetDeviceStatus
    \/ StreamDeviceStatus
    \/ StatusStreamInitial
    \/ StatusStreamChange

\* the registry and its readers
StatusNext == Next \/ Readers

-----------------------------------------------------------------------------
(* The WebSocket transport: WsTransport *)

\* the peer sends at most this many frames in a run
MaxFrames == 3
\* the count of started background loops stops here
MaxPumps == 2

\* let init_key = "yo mamma".to_string()
InitKey == "yo mamma"

\* the two WsTransport implementations of the repository
WsImpls == {"transport.rs", "ws_transport.rs"}

\* what the peer can put on the socket: the variants of WsMessageFromClient
\* and of DevDispMessageFromClient, a binary frame that does not decode, and
\* a frame that is not Message::Binary
Frame(kind, val) == [kind |-> kind, val |-> val]
\* WsMessageProtocolInit { init_key }
ProtocolInit(k) == [init_key |-> k]
\* WsMessageDeviceInfo { name, resolution } as the peer reports it
DeviceInfo == [name |-> "tablet", resolution |-> "800x600"]
\* DisplayParameters { host_dev_name, resolution } as the peer reports it
PeerDisplayParameters == [host_dev_name |-> "tablet", resolution |-> "1920x1080"]
NoPayload == [none |-> "-"]
PeerFrames ==
    {Frame("ResponseProtocolInit", ProtocolInit(k)) : k \in {InitKey, "another key"}}
        \cup {Frame("ResponseDeviceInformation", DeviceInfo),
              Frame("DisplayParametersUpdate", PeerDisplayParameters),
              Frame("SetEncodingResponse", [ok |-> "true"]),
              Frame("ResponsePreInit", NoPayload),
              Frame("Undecodable", NoPayload),
              Frame("NotBinary", NoPayload)}
CoreKinds == {"DisplayParametersUpdate", "SetEncodingResponse"}

\* WsTransport::new: three empty channels, the background context in place
WsInit ==
    /\ ws_impl \in WsImpls
    /\ ws_rx = <<>>
    /\ rx_protocol_init = <<>>
    /\ rx_device_info = <<>>
    /\ rx_core_display_params_update = <<>>
    /\ rx_core_message = <<>>
    /\ background_context = TRUE
    /\ ws_bg = "not started"
    /\ pumps = 0
    /\ background_ret = "none"
    /\ ws_pc = "start"
    /\ init_ret = "none"
    /\ config_ret = <<>>
    /\ peer_sent = <<>>
    /\ init_answer = <<>>
    /\ peer_open = TRUE

\* the transport of a run that does not look into it
WsIdle == WsInit /\ ws_impl = "transport.rs"

\* the senders live in the background context, which the transport holds
\* until the background task takes it
SendersAlive == ws_bg \in {"not started", "running"}

bgVars == <<ws_rx, rx_protocol_init, rx_device_info,
            rx_core_display_params_update, rx_core_message, ws_bg>>
callVars == <<ws_pc, init_ret, config_ret>>
startVars == <<background_context, pumps, background_ret>>
peerVars == <<peer_sent, init_answer, peer_open>>

\* --- background(): the future that runs the inbound pump ---

\* variant (not the code): the context is left in place
BackgroundContextTake_Keeps(ctx) == ctx

\* self.background_context.take(): what is left in the transport
BackgroundContextTake(ctx) == FALSE

\* background(): with the context the loop starts; without it
\* background_ctx.ok_or_else(|| TransportError::Unknown)? returns at once
WsBackgroundCall ==
    /\ pumps < MaxPumps
    /\ background_context' = BackgroundContextTake(background_context)
    /\ IF background_context
       THEN /\ pumps' = pumps + 1
            /\ ws_bg' = IF ws_bg = "not started" THEN "running" ELSE ws_bg
            /\ UNCHANGED background_ret
       ELSE /\ background_ret' = "Err(Unknown)"
            /\ UNCHANGED <<pumps, ws_bg>>
    /\ UNCHANGED <<notWs, ws_impl, ws_rx, rx_protocol_init,
                   rx_device_info, rx_core_display_params_update,
                   rx_core_message, callVars, peerVars>>

\* --- the background task: one frame per step, routed by its variant ---

\* ws_rx.next() yields a frame
BgHasFrame == ws_bg = "running" /\ ws_rx # <<>>

\* ResponseProtocolInit(resp) => tx_protocol_init.send(resp)
WsBgProtocolInit ==
    /\ BgHasFrame
    /\ Head(ws_rx).kind = "ResponseProtocolInit"
    /\ ws_rx' = Tail(ws_rx)
    /\ rx_protocol_init' = Append(rx_protocol_init, Head(ws_rx).val)
    /\ UNCHANGED <<notWs, ws_impl, startVars, rx_device_info,
                   rx_core_display_params_update, rx_core_message, ws_bg,
                   callVars, peerVars>>

\* ResponseDeviceInformation(info) => tx_device_info.send(info)
WsBgDeviceInfo ==
    /\ BgHasFrame
    /\ Head(ws_rx).kind = "ResponseDeviceInformation"
    /\ ws_rx' = Tail(ws_rx)
    /\ rx_device_info' = Append(rx_device_info, Head(ws_rx).val)
    /\ UNCHANGED <<notWs, ws_impl, startVars, rx_protocol_init,
                   rx_core_display_params_update, rx_core_message, ws_bg,
                   callVars, peerVars>>

\* Core(core_msg): transport.rs queues a DisplayParametersUpdate's payload
\* and drops the other core messages; ws_transport.rs queues every core
\* message on tx_core_message
WsBgCore ==
    /\ BgHasFrame
    /\ Head(ws_rx).kind \in CoreKinds
    /\ ws_rx' = Tail(ws_rx)
    /\ rx_core_display_params_update' =
           IF ws_impl = "transport.rs" /\ Head(ws_rx).kind = "DisplayParametersUpdate"
           THEN Append(rx_core_display_params_update, Head(ws_rx).val)
           ELSE rx_core_display_params_update
    /\ rx_core_message' =
           IF ws_impl = "ws_transport.rs"
           THEN Append(rx_core_message, Head(ws_rx))
           ELSE rx_core_message
    /\ UNCHANGED <<notWs, ws_impl, startVars, rx_protocol_init, rx_device_info,
                   ws_bg, callVars, peerVars>>

\* other => logged, continue
WsBgOther ==
    /\ BgHasFrame
    /\ Head(ws_rx).kind = "ResponsePreInit"
    /\ ws_rx' = Tail(ws_rx)
    /\ UNCHANGED <<notWs, ws_impl, startVars, rx_protocol_init, rx_device_info,
                   rx_core_display_params_update, rx_core_message, ws_bg,
                   callVars, peerVars>>

\* if let Err(e) = _ws_msg { error!(..); continue; }
WsBgUndecodable ==
    /\ BgHasFrame
    /\ Head(ws_rx).kind = "Undecodable"
    /\ ws_rx' = Tail(ws_rx)
    /\ UNCHANGED <<notWs, ws_impl, startVars, rx_protocol_init, rx_device_info,
                   rx_core_display_params_update, rx_core_message, ws_bg,
                   callVars, peerVars>>

\* Ok(_) that is not Message::Binary => return Err(TransportError::Unknown)
WsBgNotBinary ==
    /\ BgHasFrame
    /\ Head(ws_rx).kind = "NotBinary"
    /\ ws_rx' = Tail(ws_rx)
    /\ ws_bg' = "Err(Unknown)"
    /\ UNCHANGED <<notWs, ws_impl, startVars, rx_protocol_init, rx_device_info,
                   rx_core_display_params_update, rx_core_message,
                   callVars, peerVars>>

\* ws_rx.next() = None: .ok_or(TransportError::NoConnection)?
WsBgClosed ==
    /\ ws_bg = "running"
    /\ ws_rx = <<>>
    /\ ~peer_open
    /\ ws_bg' = "Err(NoConnection)"
    /\ UNCHANGED <<notWs, ws_impl, startVars, ws_rx, rx_protocol_init,
                   rx_device_info, rx_core_display_params_update,
                   rx_core_message, callVars, peerVars>>

WsBackground ==
    \/ WsBgProtocolInit \/ WsBgDeviceInfo \/ WsBgCore
    \/ WsBgOther \/ WsBgUndecodable \/ WsBgNotBinary \/ WsBgClosed

\* --- the transport's caller: initialize(), then get_display_config() ---

\* variant (not the code): any echoed key is accepted
InitKeyMatches_Any(resp, key) == TRUE

\* if resp.init_key == init_key
InitKeyMatches(resp, key) == resp.init_key = key

\* initialize(): send_msg(RequestProtocolInit { init_key }) succeeds
WsInitializeSend ==
    /\ ws_pc = "start"
    /\ ws_pc' = "init_wait"
    /\ UNCHANGED <<notWs, ws_impl, startVars, bgVars, init_ret, config_ret,
                   peerVars>>

\* initialize(): send_msg fails on the closed socket, `?` returns the error
WsInitializeSendErr ==
    /\ ws_pc = "start"
    /\ ~peer_open
    /\ init_ret' = "Err(Other)"
    /\ ws_pc' = "failed"
    /\ UNCHANGED <<notWs, ws_impl, startVars, bgVars, config_ret, peerVars>>

\* rx_protocol_init.next() yields a response: compare its key
WsInitializeRecv ==
    /\ ws_pc = "init_wait"
    /\ rx_protocol_init # <<>>
    /\ rx_protocol_init' = Tail(rx_protocol_init)
    /\ IF InitKeyMatches(Head(rx_protocol_init), InitKey)
       THEN init_ret' = "Ok" /\ ws_pc' = "initialized"
       ELSE init_ret' = "Err(Unknown)" /\ ws_pc' = "failed"
    /\ UNCHANGED <<notWs, ws_impl, startVars, ws_rx, rx_device_info,
                   rx_core_display_params_update, rx_core_message, ws_bg,
                   config_ret, peerVars>>

\* rx_protocol_init.next() = None (empty, senders dropped): NoConnection
WsInitializeNoConnection ==
    /\ ws_pc = "init_wait"
    /\ rx_protocol_init = <<>>
    /\ ~SendersAlive
    /\ init_ret' = "Err(NoConnection)"
    /\ ws_pc' = "failed"
    /\ UNCHANGED <<notWs, ws_impl, startVars, bgVars, config_ret, peerVars>>

\* get_display_config(): send_msg(Core(GetDisplayParametersRequest)) succeeds
WsGetDisplayConfigSend ==
    /\ ws_pc = "initialized"
    /\ ws_pc' = "config_wait"
    /\ UNCHANGED <<notWs, ws_impl, startVars, bgVars, init_ret, config_ret,
                   peerVars>>

\* get_display_config(): send_msg fails on the closed socket
WsGetDisplayConfigSendErr ==
    /\ ws_pc = "initialized"
    /\ ~peer_open
    /\ config_ret' = <<"Err(Other)">>
    /\ ws_pc' = "failed"
    /\ UNCHANGED <<notWs, ws_impl, startVars, bgVars, init_ret, peerVars>>

\* .map(|info| DisplayParameters { host_dev_name: info.name,
\*                                 resolution: info.resolution })
DisplayParametersOfInfo(info) ==
    [host_dev_name |-> info.name, resolution |-> info.resolution]

\* the queue get_display_config() waits on: rx_core_display_params_update in
\* transport.rs, rx_device_info in ws_transport.rs
ConfigQueue ==
    IF ws_impl = "transport.rs" THEN rx_core_display_params_update
                                ELSE rx_device_info

\* the queue yields an item: Ok(DisplayParameters)
WsGetDisplayConfigRecv ==
    /\ ws_pc = "config_wait"
    /\ ConfigQueue # <<>>
    /\ IF ws_impl = "transport.rs"
       THEN /\ config_ret' = <<"Ok", Head(rx_core_display_params_update)>>
            /\ rx_core_display_params_update' = Tail(rx_core_display_params_update)
            /\ UNCHANGED rx_device_info
       ELSE /\ config_ret' = <<"Ok", DisplayParametersOfInfo(Head(rx_device_info))>>
            /\ rx_device_info' = Tail(rx_device_info)
            /\ UNCHANGED rx_core_display_params_update
    /\ ws_pc' = "configured"
    /\ UNCHANGED <<notWs, ws_impl, startVars, ws_rx, rx_protocol_init,
                   rx_core_message, ws_bg, init_ret, peerVars>>

\* the queue is empty and its sender dropped: Err(NoConnection)
WsGetDisplayConfigNoConnection ==
    /\ ws_pc = "config_wait"
    /\ ConfigQueue = <<>>
    /\ ~SendersAlive
    /\ config_ret' = <<"Err(NoConnection)">>
    /\ ws_pc' = "failed"
    /\ UNCHANGED <<notWs, ws_impl, startVars, bgVars, init_ret, peerVars>>

WsCaller ==
    \/ WsInitializeSend \/ WsInitializeSendErr
    \/ WsInitializeRecv \/ WsInitializeNoConnection
    \/ WsGetDisplayConfigSend \/ WsGetDisplayConfigSendErr
    \/ WsGetDisplayConfigRecv \/ WsGetDisplayConfigNoConnection

\* --- the peer ---

\* the peer sends a frame; the first one after the init request is its answer
PeerSend(m) ==
    /\ peer_open
    /\ Len(peer_sent) < MaxFrames
    /\ ws_rx' = Append(ws_rx, m)
    /\ peer_sent' = Append(peer_sent, m)
    /\ init_answer' = IF ws_pc = "init_wait" /\ init_answer = <<>>
                      THEN <<m>> ELSE init_answer
    /\ UNCHANGED <<notWs, ws_impl, startVars, rx_protocol_init, rx_device_info,
                   rx_core_display_params_update, rx_core_message, ws_bg,
                   callVars, peer_open>>

\* the peer closes the connection
PeerClose ==
    /\ peer_open
    /\ peer_open' = FALSE
    /\ UNCHANGED <<notWs, ws_impl, startVars, bgVars, callVars, peer_sent,
                   init_answer>>

WsNext ==
    \/ WsBackgroundCall
    \/ WsBackground
    \/ WsCaller
    \/ \E m \in PeerFrames : PeerSend(m)
    \/ PeerClose

-----------------------------------------------------------------------------
(* The WebSocket discovery: WsDiscovery *)

\* inbound connections of a run
MaxConns == 2
Conns == 1..MaxConns

\* what a connection can answer: the variants of WsMessageFromClient, a
\* binary frame that does not decode, a frame that is not binary, and the
\* end of the stream (or a socket error)
ReplyKinds == {"ResponsePreInit", "ResponseProtocolInit",
               "ResponseDeviceInformation", "Core",
               "Undecodable", "NotBinary", "Closed"}

\* Ok(Message::Binary(bin)) that decodes => Some(msg); everything else => None
Decodes(m) == m \notin {"Undecodable", "NotBinary", "Closed"}

\* WsDiscovery::new: no connection yet, nothing queued
WsDiscoveryNew ==
    /\ conn_pc = [c \in Conns |-> "none"]
    /\ pre_reply = [c \in Conns |-> "none"]
    /\ current_connections = {}
    /\ connections_update = 0
    /\ listed = {}

\* listen: incoming_connections.next() and accept_async succeed, the
\* pre_init task is created and sends RequestPreInit
PreInitSendRequest(c) ==
    /\ conn_pc[c] = "none"
    /\ conn_pc' = [conn_pc EXCEPT ![c] = "wait_pre_init"]
    /\ UNCHANGED <<notDisc, pre_reply, current_connections, connections_update,
                   listed>>

\* listen: accept_async fails (continue), or sending RequestPreInit fails
\* (return)
PreInitSendFails(c) ==
    /\ conn_pc[c] = "none"
    /\ conn_pc' = [conn_pc EXCEPT ![c] = "ended"]
    /\ UNCHANGED <<notDisc, pre_reply, current_connections, connections_update,
                   listed>>

\* if res.is_none() { return; }: any message that decodes passes
PreInitAccepts(m) == Decodes(m)

\* pre_init: the reply to RequestPreInit arrives; if it passes,
\* RequestDeviceInformation is sent
PreInitReply(c, m) ==
    /\ conn_pc[c] = "wait_pre_init"
    /\ pre_reply' = [pre_reply EXCEPT ![c] = m]
    /\ conn_pc' = [conn_pc EXCEPT ![c] =
                      IF PreInitAccepts(m) THEN "wait_device_info" ELSE "ended"]
    /\ UNCHANGED <<notDisc, current_connections, connections_update, listed>>

\* pre_init: sending RequestDeviceInformation fails (return)
DeviceInfoSendFails(c) ==
    /\ conn_pc[c] = "wait_device_info"
    /\ conn_pc' = [conn_pc EXCEPT ![c] = "ended"]
    /\ UNCHANGED <<notDisc, pre_reply, current_connections, connections_update,
                   listed>>

\* pre_init: the reply to RequestDeviceInformation arrives; a
\* ResponseDeviceInformation registers the candidate and notifies the stream
DeviceInfoReply(c, m) ==
    /\ conn_pc[c] = "wait_device_info"
    /\ IF m = "ResponseDeviceInformation"
       THEN /\ conn_pc' = [conn_pc EXCEPT ![c] = "wait_take"]
            /\ current_connections' = current_connections \cup {c}
            /\ connections_update' = connections_update + 1
       ELSE /\ conn_pc' = [conn_pc EXCEPT ![c] = "ended"]
            /\ UNCHANGED <<current_connections, connections_update>>
    /\ UNCHANGED <<notDisc, pre_reply, listed>>

\* connect() asks for the socket and pre_init hands it over: the candidate
\* is removed and the stream is notified
TakeWebSocket(c) ==
    /\ conn_pc[c] = "wait_take"
    /\ conn_pc' = [conn_pc EXCEPT ![c] = "taken"]
    /\ current_connections' = current_connections \ {c}
    /\ connections_update' = connections_update + 1
    /\ UNCHANGED <<notDisc, pre_reply, listed>>

\* into_stream: a notification is read and discover_devices() is yielded
DiscoveryStreamNext ==
    /\ connections_update > 0
    /\ connections_update' = connections_update - 1
    /\ listed' = current_connections
    /\ UNCHANGED <<notDisc, conn_pc, pre_reply, current_connections>>

DiscNext ==
    \/ \E c \in Conns : PreInitSendRequest(c) \/ PreInitSendFails(c)
    \/ \E c \in Conns, m \in ReplyKinds : PreInitReply(c, m)
    \/ \E c \in Conns : DeviceInfoSendFails(c)
    \/ \E c \in Conns, m \in ReplyKinds : DeviceInfoReply(c, m)
    \/ \E c \in Conns : TakeWebSocket(c)
    \/ DiscoveryStreamNext

-----------------------------------------------------------------------------
(* The ffmpeg encoder: configuration sets, the probe and init *)

\* sizes of the catalogues a run is given
MaxSets == 2
MaxOptionSets == 2
MaxPixelFormats == 2

\* FfmpegEncoderConfigurationSet::new: the option sets and the pixel formats
\* are kept by their number, both indices start at 0
ConfigurationSet(name, family, n, m) ==
    [encoder_name |-> name, encoder_family |-> family,
     encoder_option_sets |-> n, pixel_formats |-> m,
     encoder_option_set_index |-> 0, pixel_format_index |-> 0]

\* FfmpegEncoderConfiguration: the option set and the pixel format are named
\* by their index in the set's lists
EncoderConfiguration(set) ==
    [encoder_name |-> set.encoder_name, encoder_family |-> set.encoder_family,
     encoder_options |-> set.encoder_option_set_index,
     pixel_format |-> set.pixel_format_index]

\* get_encoders(): the built-in catalogue
GetEncoders ==
    << ConfigurationSet("hevc", "hvc1", 1, 1),
       ConfigurationSet("hevc_nvenc", "hvc1", 1, 8),
       ConfigurationSet("hevc_qsv", "hvc1", 1, 8),
       ConfigurationSet("hevc_vaapi", "hvc1", 0, 1),
       ConfigurationSet("hevc_vulkan", "hvc1", 1, 1),
       ConfigurationSet("libx265", "hvc1", 1, 1),
       ConfigurationSet("h265", "hvc1", 1, 1),
       ConfigurationSet("x265", "hvc1", 1, 1),
       ConfigurationSet("h264", "h264", 1, 1),
       ConfigurationSet("h264_vulkan", "h264", 1, 1),
       ConfigurationSet("libx264", "h264", 1, 1),
       ConfigurationSet("libx264", "h264", 1, 1),
       ConfigurationSet("vp9_qsv", "vp09", 1, 5),
       ConfigurationSet("vp9_vaapi", "vp09", 1, 1),
       ConfigurationSet("libvpx-vp9", "vp09", 1, 5),
       ConfigurationSet("libvpx", "vp8", 1, 2),
       ConfigurationSet("libaom-av1", "av1", 1, 1) >>

\* FfmpegEncoderConfigurationSet::next: the set after the call, the item it
\* returned (<<>> for None) and whether the call panicked on
\* self.pixel_formats[self.pixel_format_index]
SetNext(set) ==
    IF set.encoder_option_set_index >= set.encoder_option_sets
    THEN [set |-> set, item |-> <<>>, panic |-> FALSE]
    ELSE LET s1 == IF set.pixel_format_index >= set.pixel_formats
                   THEN [set EXCEPT !.pixel_format_index = 0,
                                    !.encoder_option_set_index = @ + 1]
                   ELSE set
         IN  IF s1.encoder_option_set_index >= s1.encoder_option_sets
             THEN [set |-> s1, item |-> <<>>, panic |-> FALSE]
             ELSE IF s1.pixel_format_index >= s1.pixel_formats
             THEN [set |-> s1, item |-> <<>>, panic |-> TRUE]
             ELSE [set |-> [s1 EXCEPT !.pixel_format_index = @ + 1],
                   item |-> <<EncoderConfiguration(s1)>>, panic |-> FALSE]

\* FfmpegEncoderBruteForceIterator::new
BruteForceIterator(configurations) ==
    [configurations |-> configurations, current_index |-> 0]

\* FfmpegEncoderBruteForceIterator::next: the sets from current_index on are
\* asked in turn until one returns an item (or panics); the ones asked
\* before it have returned None and are passed over
BruteForceNext(it) ==
    LET n == Len(it.configurations)
        asked == [j \in 1..n |-> SetNext(it.configurations[j])]
        hits == {j \in (it.current_index + 1)..n :
                     asked[j].panic \/ asked[j].item # <<>>}
        last == IF hits = {} THEN n ELSE CHOOSE j \in hits : \A k \in hits : j <= k
        after == [j \in 1..n |->
                     IF j > it.current_index /\ j <= last
                     THEN asked[j].set ELSE it.configurations[j]]
    IN  IF hits = {}
        THEN [it |-> [configurations |-> after,
                      current_index |-> IF n > it.current_index
                                        THEN n ELSE it.current_index],
              item |-> <<>>, panic |-> FALSE]
        ELSE [it |-> [configurations |-> after, current_index |-> last - 1],
              item |-> asked[last].item, panic |-> asked[last].panic]

\* variant (not the code): a preference matches on the encoder name alone
PreferredMatches_NameOnly(prefs, config) ==
    \E preferred \in prefs : preferred.encoder_name = config.encoder_name

\* prefs.iter().any(|preferred| preferred.encoder_name == config.encoder_name
\*                              && preferred.encoder_family == config.encoder_family)
PreferredMatches(prefs, config) ==
    \E preferred \in prefs :
        /\ preferred.encoder_name = config.encoder_name
        /\ preferred.encoder_family = config.encoder_family

\* Option<Vec<EncoderPossibleConfiguration>>: None, or Some of a list, of
\* which only the (encoder_name, encoder_family) pairs are read
NonePreferred == [some |-> FALSE, list |-> {}]
SomePreferred(list) == [some |-> TRUE, list |-> list]

\* the predicate of all_encoders.filter(..): without a preference list every
\* item is handed on
Passes(e, config) ==
    e.filtered => PreferredMatches(preferred_encoders.list, config)

NoIterator == [it |-> BruteForceIterator(<<>>), filtered |-> FALSE]

\* FfmpegEncoder::new(configuration): no state yet
EncoderNew ==
    /\ encoders = NoIterator
    /\ enc_pc = "new"
    /\ attempts = <<>>
    /\ enc_state = <<>>
    /\ init_result = <<>>

\* the encoder of a run that does not look into it
EncoderIdle ==
    /\ EncoderNew
    /\ configuration = <<>>
    /\ preferred_encoders = NonePreferred

\* --- init(parameters, preferred_encoders) ---

\* match preferred_encoders: None => get_encoders(); Some(prefs) => the
\* configured catalogue, filtered
EncoderInitStart ==
    /\ enc_pc = "new"
    /\ enc_pc' = "init"
    /\ encoders' = IF preferred_encoders.some
                   THEN [it |-> BruteForceIterator(configuration), filtered |-> TRUE]
                   ELSE [it |-> BruteForceIterator(GetEncoders), filtered |-> FALSE]
    /\ UNCHANGED <<notEnc, configuration, preferred_encoders, attempts, enc_state,
                   init_result>>

\* while let Some(configuration) = encoders.next(): try_init accepts (the
\* state is kept and the configuration returned) or rejects (next round)
EncoderInitTry(ok) ==
    /\ enc_pc = "init"
    /\ LET r == BruteForceNext(encoders.it)
       IN  /\ ~r.panic
           /\ r.item # <<>>
           /\ Passes(encoders, r.item[1])
           /\ encoders' = [encoders EXCEPT !.it = r.it]
           /\ attempts' = Append(attempts, [config |-> r.item[1], ok |-> ok])
           /\ IF ok
              THEN /\ enc_state' = r.item
                   /\ init_result' = <<"Ok", r.item[1].encoder_name,
                                       r.item[1].encoder_family>>
                   /\ enc_pc' = "Ok"
              ELSE UNCHANGED <<enc_state, init_result, enc_pc>>
    /\ UNCHANGED <<notEnc, configuration, preferred_encoders>>

\* Filter::next: an item of the catalogue that matches no preference is
\* passed over
EncoderInitSkip ==
    /\ enc_pc = "init"
    /\ LET r == BruteForceNext(encoders.it)
       IN  /\ ~r.panic
           /\ r.item # <<>>
           /\ ~Passes(encoders, r.item[1])
           /\ encoders' = [encoders EXCEPT !.it = r.it]
    /\ UNCHANGED <<notEnc, configuration, preferred_encoders, enc_pc, attempts,
                   enc_state, init_result>>

\* encoders.next() = None: Err("Failed to find a codec to use!")
EncoderInitExhausted ==
    /\ enc_pc = "init"
    /\ LET r == BruteForceNext(encoders.it)
       IN  /\ ~r.panic
           /\ r.item = <<>>
           /\ encoders' = [encoders EXCEPT !.it = r.it]
    /\ init_result' = <<"Err">>
    /\ enc_pc' = "Err"
    /\ UNCHANGED <<notEnc, configuration, preferred_encoders, attempts, enc_state>>

\* encoders.next() panics: init does not return
EncoderInitPanics ==
    /\ enc_pc = "init"
    /\ BruteForceNext(encoders.it).panic
    /\ enc_pc' = "panic"
    /\ UNCHANGED <<notEnc, configuration, preferred_encoders, encoders, attempts,
                   enc_state, init_result>>

EncNext ==
    \/ EncoderInitStart
    \/ \E ok \in BOOLEAN : EncoderInitTry(ok)
    \/ EncoderInitSkip
    \/ EncoderInitExhausted
    \/ EncoderInitPanics

\* --- get_supported_configurations(parameters): the probe ---

\* FfmpegEncoderBruteForceIterator::new(encoder_configurations.clone())
ProbeStart ==
    /\ enc_pc = "new"
    /\ enc_pc' = "probe"
    /\ encoders' = [it |-> BruteForceIterator(configuration), filtered |-> FALSE]
    /\ UNCHANGED <<notEnc, configuration, preferred_encoders, attempts, enc_state,
                   init_result>>

\* .filter_map(|config| setup_ffmpeg_encoder(parameters, &config)): one item
ProbeTry(ok) ==
    /\ enc_pc = "probe"
    /\ LET r == BruteForceNext(encoders.it)
       IN  /\ ~r.panic
           /\ r.item # <<>>
           /\ encoders' = [encoders EXCEPT !.it = r.it]
           /\ attempts' = Append(attempts, [config |-> r.item[1], ok |-> ok])
    /\ UNCHANGED <<notEnc, configuration, preferred_encoders, enc_pc, enc_state,
                   init_result>>

\* the iterator ends: .collect() and Ok(supported_configurations)
ProbeDone ==
    /\ enc_pc = "probe"
    /\ LET r == BruteForceNext(encoders.it)
       IN  /\ ~r.panic
           /\ r.item = <<>>
           /\ encoders' = [encoders EXCEPT !.it = r.it]
    /\ enc_pc' = "probed"
    /\ UNCHANGED <<notEnc, configuration, preferred_encoders, attempts, enc_state,
                   init_result>>

\* the iterator panics: the probe does not return
ProbePanics ==
    /\ enc_pc = "probe"
    /\ BruteForceNext(encoders.it).panic
    /\ enc_pc' = "panic"
    /\ UNCHANGED <<notEnc, configuration, preferred_encoders, encoders, attempts,
                   enc_state, init_result>>

ProbeNext ==
    \/ ProbeStart
    \/ \E ok \in BOOLEAN : ProbeTry(ok)
    \/ ProbeDone
    \/ ProbePanics

\* --- the catalogues and preference lists of a run ---

\* the (encoder_name, encoder_family) pairs of the configured sets
EncoderPairs ==
    { [encoder_name |-> "X", encoder_family |-> "hvc1"],
      [encoder_name |-> "X", encoder_family |-> "avc1"],
      [encoder_name |-> "Y", encoder_family |-> "hvc1"] }

\* sequences of at most k elements of S
SeqsUpTo(S, k) == UNION {[1..n -> S] : n \in 0..k}

\* every set of up to MaxOptionSets option sets and MaxPixelFormats formats
AllSets ==
    { ConfigurationSet("X", "hvc1", n, m) :
          n \in 0..MaxOptionSets, m \in 0..MaxPixelFormats }

\* the sets init is run on: one format, two formats, and two option sets
\* without a pixel format
InitSets ==
    { ConfigurationSet(p.encoder_name, p.encoder_family, shape[1], shape[2]) :
          p \in EncoderPairs, shape \in {<<1, 1>>, <<1, 2>>, <<2, 0>>} }

PreferenceLists == {NonePreferred} \cup {SomePreferred(l) : l \in SUBSET EncoderPairs}

-----------------------------------------------------------------------------
(* PollingDeviceDiscovery::into_stream: a polled discovery as a stream *)

\* the stream is followed for this many snapshots
MaxEmits == 3

\* PollingDeviceDiscovery::new: nothing polled yet
PollingNew ==
    /\ poll_pc = "initial"
    /\ poll_emitted = <<>>
    /\ poll_sleeps = 0

\* the polled discovery of a run that does not look at it
PollingIdle == PollingNew /\ poll_devices = {}

\* initial_discovery = inner.discover_devices(); once(initial_discovery)
\* yields it as the first item, with no sleep before it
PollingInitial ==
    /\ poll_pc = "initial"
    /\ poll_emitted' = Append(poll_emitted, poll_devices)
    /\ poll_pc' = "sleep"
    /\ UNCHANGED <<appVars, usbVars, sinkVars, cellVars, sendVars, poll_devices, poll_sleeps>>

\* unfold: (this.sleep_factory)(this.interval).await
PollingSleep ==
    /\ poll_pc = "sleep"
    /\ Len(poll_emitted) < MaxEmits
    /\ poll_sleeps' = poll_sleeps + 1
    /\ poll_pc' = "discover"
    /\ UNCHANGED <<appVars, usbVars, sinkVars, cellVars, sendVars, poll_devices, poll_emitted>>

\* variant (not the code): a list equal to the last one yielded is not yielded
PollingDiscover_Dedup ==
    /\ poll_pc = "discover"
    /\ poll_emitted' = IF poll_devices = poll_emitted[Len(poll_emitted)]
                       THEN poll_emitted
                       ELSE Append(poll_emitted, poll_devices)
    /\ poll_pc' = "sleep"
    /\ UNCHANGED <<appVars, usbVars, sinkVars, cellVars, sendVars, poll_devices, poll_sleeps>>

\* unfold: devices = this.inner.discover_devices().await; Some((devices, this))
PollingDiscover ==
    /\ poll_pc = "discover"
    /\ poll_emitted' = Append(poll_emitted, poll_devices)
    /\ poll_pc' = "sleep"
    /\ UNCHANGED <<appVars, usbVars, sinkVars, cellVars, sendVars, poll_devices, poll_sleeps>>

\* the devices the wrapped discovery can see change
PollingDevicesChange ==
    /\ \E l \in SUBSET DeviceIds : l # poll_devices /\ poll_devices' = l
    /\ UNCHANGED <<appVars, usbVars, sinkVars, cellVars, sendVars, poll_pc, poll_emitted, poll_sleeps>>

PollNext ==
    \/ PollingInitial
    \/ PollingSleep
    \/ PollingDiscover
    \/ PollingDevicesChange


-----------------------------------------------------------------------------
(* LatestValueSink: the latest item of a stream *)

\* the wrapped stream has at most this many items ready at a time
MaxItems == 2
\* this many calls of the sink are followed
MaxSinkCalls == 3

Items == {1, 2}

\* what S: Stream the sink is built on does once its items are out: it is
\* still open (Pending), it has ended and goes on answering None (as
\* stream::iter does), or it has ended and must not be polled again (the
\* Stream contract: polling a finished stream may panic)
StreamKinds == {"open", "fused", "unfused"}

\* Option<T> as a call returns it, or the panic that ended the call
None == [kind |-> "None", value |-> 0]
Some(v) == [kind |-> "Some", value |-> v]
Panicked == [kind |-> "panic", value |-> 0]
OptionOf(o) == IF o = <<>> THEN None ELSE Some(o[1])

\* drain_stream polls a stream that has already returned None, and the
\* stream is not one that may be polled then
PollsFinished == sink_ended /\ sink_kind = "unfused"

\* latest_value after drain_stream: the last of the items ready, if any
Drained ==
    IF sink_stream = <<>> THEN latest_value
                          ELSE <<sink_stream[Len(sink_stream)]>>

\* drain_stream leaves the stream with nothing ready; a stream that is not
\* open has then returned None
DrainStream ==
    /\ sink_stream' = <<>>
    /\ sink_ended' = (sink_kind # "open")

\* one call in the history
SinkCall(name, ret) == [call |-> name, ready |-> sink_stream, ret |-> ret]

\* LatestValueSink::new(stream)
SinkNew ==
    /\ sink_ended = FALSE
    /\ latest_value = <<>>
    /\ sink_calls = <<>>

\* the sink of a run that does not look at it
SinkIdle ==
    /\ SinkNew
    /\ sink_kind = "open"
    /\ sink_stream = <<>>

\* get_latest_value_cloned: drain_stream, then latest_value.clone()
GetLatestValueCloned ==
    /\ Len(sink_calls) < MaxSinkCalls
    /\ ~(\E i \in 1..Len(sink_calls) : sink_calls[i].ret = Panicked)
    /\ IF PollsFinished
       THEN /\ sink_calls' = Append(sink_calls, SinkCall("get_latest_value_cloned", Panicked))
            /\ UNCHANGED <<sink_stream, sink_ended, latest_value>>
       ELSE /\ DrainStream
            /\ latest_value' = Drained
            /\ sink_calls' = Append(sink_calls,
                                    SinkCall("get_latest_value_cloned", OptionOf(Drained)))
    /\ UNCHANGED <<appVars, pollVars, usbVars, cellVars, sendVars, sink_kind>>

\* take_latest_value: drain_stream, then latest_value.take()
TakeLatestValue ==
    /\ Len(sink_calls) < MaxSinkCalls
    /\ ~(\E i \in 1..Len(sink_calls) : sink_calls[i].ret = Panicked)
    /\ IF PollsFinished
       THEN /\ sink_calls' = Append(sink_calls, SinkCall("take_latest_value", Panicked))
            /\ UNCHANGED <<sink_stream, sink_ended, latest_value>>
       ELSE /\ DrainStream
            /\ latest_value' = <<>>
            /\ sink_calls' = Append(sink_calls,
                                    SinkCall("take_latest_value", OptionOf(Drained)))
    /\ UNCHANGED <<appVars, pollVars, usbVars, cellVars, sendVars, sink_kind>>

\* an open stream has one more item ready
SinkStreamYields(v) ==
    /\ sink_kind = "open"
    /\ Len(sink_stream) < MaxItems
    /\ sink_stream' = Append(sink_stream, v)
    /\ UNCHANGED <<appVars, pollVars, usbVars, cellVars, sendVars, sink_kind, sink_ended, latest_value,
                   sink_calls>>

SinkNext ==
    \/ GetLatestValueCloned
    \/ TakeLatestValue
    \/ \E v \in Items : SinkStreamYields(v)

-----------------------------------------------------------------------------
(* ComputedCell: a value cached until it is invalidated *)

\* the input of compute_fn changes at most this many times
MaxInvalidations == 2
\* this many calls of the cell are followed
MaxCellCalls == 4

\* a call of the cell and what it returned
CellRet(name, ret) == [call |-> name, ret |-> ret]

\* ComputedCell::new: cached_value = None
CellNew ==
    /\ invalidate_rx = 0
    /\ cached_value = <<>>
    /\ cell_source = 0
    /\ cell_computes = 0
    /\ cell_calls = 0
    /\ cell_ret = CellRet("new", None)
    /\ invalidated_since = FALSE

\* drain_notifications() = Some(_): at least one notification was waiting
DrainNotifications == invalidate_rx > 0

\* cached_value after test_invalidate: force_invalidate if a notification
\* was drained
TestInvalidate == IF DrainNotifications THEN <<>> ELSE cached_value

\* a call is served
CellServes(name, ret) ==
    /\ cell_calls < MaxCellCalls
    /\ cell_calls' = cell_calls + 1
    /\ cell_ret' = CellRet(name, ret)

\* get = get_or_compute_with(compute_fn): compute only if cached_value is
\* None; the invalidation stream is not looked at
CellGet ==
    /\ CellServes("get", IF cached_value = <<>> THEN Some(cell_source)
                                                ELSE Some(cached_value[1]))
    /\ IF cached_value = <<>>
       THEN /\ cached_value' = <<cell_source>>
            /\ cell_computes' = cell_computes + 1
            /\ invalidated_since' = FALSE
       ELSE UNCHANGED <<cached_value, cell_computes, invalidated_since>>
    /\ UNCHANGED <<appVars, pollVars, usbVars, sinkVars, sendVars, invalidate_rx, cell_source>>

\* get_if_valid: test_invalidate, then get_value
CellGetIfValid ==
    /\ CellServes("get_if_valid", OptionOf(TestInvalidate))
    /\ cached_value' = TestInvalidate
    /\ invalidate_rx' = 0
    /\ UNCHANGED <<appVars, pollVars, usbVars, sinkVars, sendVars, cell_source, cell_computes,
                   invalidated_since>>

\* invalidate: force_invalidate takes the value out
CellInvalidate ==
    /\ CellServes("invalidate", None)
    /\ cached_value' = <<>>
    /\ UNCHANGED <<appVars, pollVars, usbVars, sinkVars, sendVars, invalidate_rx, cell_source,
                   cell_computes, invalidated_since>>

\* the input of compute_fn changes and a notification is put on the stream
CellNotified ==
    /\ cell_source < MaxInvalidations
    /\ cell_source' = cell_source + 1
    /\ invalidate_rx' = invalidate_rx + 1
    /\ invalidated_since' = (invalidated_since \/ cached_value # <<>>)
    /\ UNCHANGED <<appVars, pollVars, usbVars, sinkVars, sendVars, cached_value, cell_computes,
                   cell_calls, cell_ret>>

CellNext ==
    \/ CellGet
    \/ CellGetIfValid
    \/ CellInvalidate
    \/ CellNotified

-----------------------------------------------------------------------------
(* send_screen_data of the WebSocket transports *)

\* this many send_screen_data calls are followed
MaxSends == 2

\* the end of the range transport.rs takes of data: 64 * 1024
ScreenDataRangeEnd == 65536

\* the lengths of data: empty, a small frame, and around 64 KiB
DataLens == {0, 1024, ScreenDataRangeEnd - 1, ScreenDataRangeEnd,
             ScreenDataRangeEnd + 1, 2 * ScreenDataRangeEnd}

\* the bytes lo..hi-1 of the caller's data
Bytes(lo, hi) == [lo |-> lo, hi |-> hi]

\* data[0..end]: a range that ends past the slice panics
RangeTo(len, end) == IF end > len THEN <<>> ELSE <<Bytes(0, end)>>

\* the bytes send_screen_data puts in the message: data[0..64 * 1024] in
\* transport.rs, data in ws_transport.rs
ScreenDataPayload(impl, len) ==
    IF impl = "transport.rs" THEN RangeTo(len, ScreenDataRangeEnd)
                             ELSE <<Bytes(0, len)>>

\* WsMessageFromSource::Core(DevDispMessageFromSource::PutScreenData(bytes))
PutScreenData(bytes) == [kind |-> "PutScreenData", bytes |-> bytes]

\* what a call was given and how it ended
SendRet(len, ret) == [data_len |-> len, ret |-> ret]

\* what send_msg returns: the encoding or the sink's send can fail
SendMsgResults == {"Ok", "Err(SerializationError)", "Err(Other)"}

\* nothing sent yet
SendNew ==
    /\ ws_tx = <<>>
    /\ send_calls = 0
    /\ send_ret = SendRet(0, "none")

\* send_screen_data(data): build the message, then send_msg; the message
\* is on the socket only if send_msg returned Ok
SendScreenData(len, r) ==
    /\ send_calls < MaxSends
    /\ send_ret.ret # "panic"
    /\ send_calls' = send_calls + 1
    /\ IF ScreenDataPayload(ws_impl, len) = <<>>
       THEN /\ send_ret' = SendRet(len, "panic")
            /\ UNCHANGED ws_tx
       ELSE /\ send_ret' = SendRet(len, r)
            /\ ws_tx' = IF r = "Ok"
                        THEN Append(ws_tx, PutScreenData(ScreenDataPayload(ws_impl, len)[1]))
                        ELSE ws_tx
    /\ UNCHANGED <<appVars, pollVars, usbVars, sinkVars, cellVars>>

SendNext == \E len \in DataLens, r \in SendMsgResults : SendScreenData(len, r)

-----------------------------------------------------------------------------
(* connect_usb_android_accessory: the re-scan after the start request *)

\* pub const USB_ACCESSORY_VENDOR_ID: u16 = 0x18D1
USB_ACCESSORY_VENDOR_ID == 6353
\* pub const USB_ACCESSORY_DEVICE_ID: u16 = 0x2D00
USB_ACCESSORY_DEVICE_ID == 11520
\* pub const USB_ACCESSORY_DEVICE_ID_ADB_DEBUG: u16 = 0x2D01
USB_ACCESSORY_DEVICE_ID_ADB_DEBUG == 11521
\* pub const ACCESSORY_RE_ENUMERATE_RETRY_COUNT: u32 = 10 (dev-disp-comm)
ACCESSORY_RE_ENUMERATE_RETRY_COUNT == 10
\* let mut retries_left = 5 (dev-disp-comm-usb)
RetriesLeftCommUsb == 5

UsbImpls == {"dev-disp-comm", "dev-disp-comm-usb"}

\* the retry count the running bring-up starts from
RetryCount(impl) ==
    IF impl = "dev-disp-comm" THEN ACCESSORY_RE_ENUMERATE_RETRY_COUNT
                              ELSE RetriesLeftCommUsb

\* Option<&str> of DeviceInfo::serial_number()
Serials == {<<>>, <<"s1">>, <<"s2">>}

\* nusb::DeviceInfo: what list_devices() can report: the device in either
\* accessory mode, and a device that is not in accessory mode
UsbDeviceInfo(v, p, serial) == [vendor_id |-> v, product_id |-> p, serial_number |-> serial]
UsbDevices ==
    {UsbDeviceInfo(USB_ACCESSORY_VENDOR_ID, p, n) :
        p \in {USB_ACCESSORY_DEVICE_ID, USB_ACCESSORY_DEVICE_ID_ADB_DEBUG}, n \in Serials}
    \cup {UsbDeviceInfo(1256, 26720, n) : n \in Serials}

\* variant (not the code): the serial number is not looked at
SerialAccepted_Any(target, this) == TRUE

\* if let Some(serial) = target_device_serial { if this_device_serial.is_none()
\* || this_device_serial.is_some_and(|s| s != serial) { return false; } }
SerialAccepted(target, this) ==
    target # <<>> => (this # <<>> /\ this[1] = target[1])

\* the closure given to dev_list.find
InAccessoryMode(target, info) ==
    /\ SerialAccepted(target, info.serial_number)
    /\ info.vendor_id = USB_ACCESSORY_VENDOR_ID
    /\ \/ info.product_id = USB_ACCESSORY_DEVICE_ID
       \/ info.product_id = USB_ACCESSORY_DEVICE_ID_ADB_DEBUG

\* what the bring-up returned and the stage it returned from
UsbReturn(res, stage) == [res |-> res, stage |-> stage]

\* the start request has been sent and the device dropped:
\* retries_left = the retry count, target_device = None
UsbStarted ==
    /\ usb_pc = "loop"
    /\ retries_left = RetryCount(usb_impl)
    /\ usb_waits = 0
    /\ usb_scans = 0
    /\ usb_misses = 0
    /\ usb_found = <<>>
    /\ usb_result = <<>>

\* the bring-up of a run that does not look at it
UsbIdle ==
    /\ usb_impl = "dev-disp-comm"
    /\ target_device_serial = <<>>
    /\ UsbStarted

\* while retries_left > 0 { retries_left -= 1; Delay::new(wait_time).await
UsbWait ==
    /\ usb_pc = "loop"
    /\ retries_left > 0
    /\ retries_left' = retries_left - 1
    /\ usb_waits' = usb_waits + 1
    /\ usb_pc' = "scan"
    /\ UNCHANGED <<appVars, pollVars, sinkVars, cellVars, sendVars, usb_impl, target_device_serial, usb_scans,
                   usb_misses, usb_found, usb_result>>

\* list_devices().await.ok().and_then(|l| l.find(..)) finds a device: break
\* with it (dev-disp-comm) or go on to open it
UsbRescanFound ==
    /\ usb_pc = "scan"
    /\ \E list \in SUBSET UsbDevices :
         \E info \in list :
            /\ InAccessoryMode(target_device_serial, info)
            /\ usb_found' = <<info>>
    /\ usb_scans' = usb_scans + 1
    /\ usb_pc' = "open"
    /\ UNCHANGED <<appVars, pollVars, sinkVars, cellVars, sendVars, usb_impl, target_device_serial, retries_left,
                   usb_waits, usb_misses, usb_result>>

\* list_devices() fails, or no device of the list passes find: next round
UsbRescanMiss ==
    /\ usb_pc = "scan"
    /\ \E list \in SUBSET UsbDevices :
         \A info \in list : ~InAccessoryMode(target_device_serial, info)
    /\ usb_scans' = usb_scans + 1
    /\ usb_misses' = usb_misses + 1
    /\ usb_pc' = "loop"
    /\ UNCHANGED <<appVars, pollVars, sinkVars, cellVars, sendVars, usb_impl, target_device_serial, retries_left,
                   usb_waits, usb_found, usb_result>>

\* the loop is left with retries_left = 0 and no device: StrategyFailed
UsbRetriesExhausted ==
    /\ usb_pc = "loop"
    /\ retries_left = 0
    /\ usb_result' = <<UsbReturn("StrategyFailed", "re-scan")>>
    /\ usb_pc' = "done"
    /\ UNCHANGED <<appVars, pollVars, sinkVars, cellVars, sendVars, usb_impl, target_device_serial, retries_left,
                   usb_waits, usb_scans, usb_misses, usb_found>>

\* device.open() of the device found: ConnectionFailed on error; on success
\* dev-disp-comm-usb returns it, dev-disp-comm goes on to the interface
UsbOpen(ok) ==
    /\ usb_pc = "open"
    /\ IF ~ok
       THEN /\ usb_result' = <<UsbReturn("ConnectionFailed", "open")>>
            /\ usb_pc' = "done"
       ELSE IF usb_impl = "dev-disp-comm-usb"
            THEN /\ usb_result' = <<UsbReturn("Ok", "open")>>
                 /\ usb_pc' = "done"
            ELSE /\ usb_pc' = "claim"
                 /\ UNCHANGED usb_result
    /\ UNCHANGED <<appVars, pollVars, sinkVars, cellVars, sendVars, usb_impl, target_device_serial, retries_left,
                   usb_waits, usb_scans, usb_misses, usb_found>>

\* claim_interface(0), find_bulk_endpoints, the two endpoints: each failure
\* is StrategyFailed; Ok(AndroidAoaScreenHostTransport::new(..)) otherwise
UsbClaimInterface(ok) ==
    /\ usb_pc = "claim"
    /\ usb_result' = <<UsbReturn(IF ok THEN "Ok" ELSE "StrategyFailed", "interface")>>
    /\ usb_pc' = "done"
    /\ UNCHANGED <<appVars, pollVars, sinkVars, cellVars, sendVars, usb_impl, target_device_serial, retries_left,
                   usb_waits, usb_scans, usb_misses, usb_found>>

UsbNext ==
    \/ UsbWait
    \/ UsbRescanFound
    \/ UsbRescanMiss
    \/ UsbRetriesExhausted
    \/ \E ok \in BOOLEAN : UsbOpen(ok)
    \/ \E ok \in BOOLEAN : UsbClaimInterface(ok)

\* the libraries of a run that does not look at them
LibIdle == PollingIdle /\ StatusIdle /\ UsbIdle /\ SinkIdle /\ CellNew /\ SendNew

-----------------------------------------------------------------------------
(* Specifications *)

\* the session variables of a registry run: no session is looked into
SessionIdle == SessionInit /\ send_mode = "any" /\ screen_mode = "any"

\* A call that waits in take() or cancel() holds a read guard, so the map it
\* read cannot change until it resumes: by then it does what a call arriving
\* at that moment does. Spec therefore lets the calls arrive when their send
\* can complete; LockSpec keeps the waiting calls and their guards.
\* one discovery is set up; it can list every device
OneSource == [s \in {"usb"} |-> DeviceIds]
\* both discoveries are set up; each can list the device id A
TwoSources == [s \in DiscoveryIds |-> {"A"}]

Init ==
    /\ RegistryInit /\ SessionIdle /\ WsIdle
    /\ sources = OneSource
    /\ call_result = NotLooked
    /\ WsDiscoveryNew
    /\ EncoderIdle
    /\ LibIdle

Spec == Init /\ [][Next]_vars

LockSpec == Init /\ [][LockNext]_vars

TwoSourceInit ==
    /\ RegistryInit /\ SessionIdle /\ WsIdle
    /\ sources = TwoSources
    /\ call_result = NotLooked
    /\ WsDiscoveryNew
    /\ EncoderIdle
    /\ LibIdle

TwoSourceSpec == TwoSourceInit /\ [][Next]_vars

\* the registry with the return value of every call kept
ApiInit ==
    /\ RegistryInit /\ SessionIdle /\ WsIdle
    /\ sources = OneSource
    /\ call_result = "none"
    /\ WsDiscoveryNew
    /\ EncoderIdle
    /\ LibIdle

ApiSpec == ApiInit /\ [][Next]_vars

\* the transport between its construction and the display configuration
WsStart ==
    /\ RegistryInit /\ SessionIdle /\ WsInit
    /\ sources = OneSource
    /\ call_result = NotLooked
    /\ WsDiscoveryNew
    /\ EncoderIdle
    /\ LibIdle

WsSpec == WsStart /\ [][WsNext]_vars

\* send_screen_data on a transport of either implementation
SendSpec == WsStart /\ [][SendNext]_vars

\* the WebSocket discovery with its inbound connections
DiscSpec == Init /\ [][DiscNext]_vars

\* the encoder's init on a configured catalogue with a preference list
EncInit ==
    /\ RegistryInit /\ SessionIdle /\ WsIdle
    /\ sources = OneSource
    /\ call_result = NotLooked
    /\ WsDiscoveryNew
    /\ LibIdle
    /\ EncoderNew
    /\ configuration \in SeqsUpTo(InitSets, MaxSets)
    /\ preferred_encoders \in PreferenceLists

EncSpec == EncInit /\ [][EncNext]_vars

\* init runs on: each round of its loop is taken
FairEncSpec == EncSpec /\ WF_vars(EncNext)

\* the registry with its readers
StatusSpec == Init /\ [][StatusNext]_vars

\* the accessory bring-up from the start request on, for either crate and
\* for a device with or without a serial number
UsbInit ==
    /\ RegistryInit /\ SessionIdle /\ WsIdle
    /\ sources = OneSource
    /\ call_result = NotLooked
    /\ WsDiscoveryNew
    /\ EncoderIdle
    /\ PollingIdle
    /\ StatusIdle
    /\ SinkIdle
    /\ CellNew
    /\ SendNew
    /\ usb_impl \in UsbImpls
    /\ target_device_serial \in Serials
    /\ UsbStarted

UsbSpec == UsbInit /\ [][UsbNext]_vars

\* every await of the bring-up returns
FairUsbSpec == UsbSpec /\ WF_vars(UsbNext)

\* a sink built on a stream of any kind with some items ready
SinkInit ==
    /\ RegistryInit /\ SessionIdle /\ WsIdle
    /\ sources = OneSource
    /\ call_result = NotLooked
    /\ WsDiscoveryNew
    /\ EncoderIdle
    /\ PollingIdle
    /\ StatusIdle
    /\ UsbIdle
    /\ CellNew
    /\ SendNew
    /\ SinkNew
    /\ sink_kind \in StreamKinds
    /\ sink_stream \in SeqsUpTo(Items, MaxItems)

SinkSpec == SinkInit /\ [][SinkNext]_vars

\* a cell, from its construction on
CellInit ==
    /\ RegistryInit /\ SessionIdle /\ WsIdle
    /\ sources = OneSource
    /\ call_result = NotLooked
    /\ WsDiscoveryNew
    /\ EncoderIdle
    /\ PollingIdle
    /\ StatusIdle
    /\ UsbIdle
    /\ SinkIdle
    /\ CellNew
    /\ SendNew

CellSpec == CellInit /\ [][CellNext]_vars

\* a polled discovery, from its construction on
PollInit ==
    /\ RegistryInit /\ SessionIdle /\ WsIdle
    /\ sources = OneSource
    /\ call_result = NotLooked
    /\ WsDiscoveryNew
    /\ EncoderIdle
    /\ PollingNew
    /\ poll_devices \in SUBSET DeviceIds
    /\ StatusIdle
    /\ UsbIdle
    /\ SinkIdle
    /\ CellNew
    /\ SendNew

PollSpec == PollInit /\ [][PollNext]_vars

\* the probe on a configured catalogue
ProbeInit ==
    /\ RegistryInit /\ SessionIdle /\ WsIdle
    /\ sources = OneSource
    /\ call_result = NotLooked
    /\ WsDiscoveryNew
    /\ LibIdle
    /\ EncoderNew
    /\ configuration \in SeqsUpTo(AllSets, MaxSets)
    /\ preferred_encoders = NonePreferred

ProbeSpec == ProbeInit /\ [][ProbeNext]_vars

\* the executor runs the background task and the caller whenever they can
\* go on; nothing is assumed about the peer
FairWsSpec ==
    /\ WsSpec
    /\ WF_vars(WsBackgroundCall /\ background_context)
    /\ WF_vars(WsBackground) /\ WF_vars(WsCaller)

\* what the executor guarantees: a task whose lock or channel operation can
\* complete does complete. When connect() or the session returns is up to
\* the device and is not assumed.
RegistryFairness ==
    \A t \in Tasks :
        /\ WF_vars(TaskRecvTake(t))
        /\ WF_vars(TaskRemoveAvailable(t))
        /\ WF_vars(TaskInsertInUse(t))
        /\ WF_vars(TaskCancelRecv(t))
        /\ WF_vars(TaskRemoveInUse(t))
        /\ WF_vars(InitializeDeviceResumes(t))
        /\ WF_vars(DisconnectDeviceResumes(t))

FairLockSpec == LockSpec /\ RegistryFairness

SessionNext ==
    \/ MainTask
    \/ BackgroundFinish
    \/ Join
    \/ CancelSend
    \/ CancelPump
    \/ Tick

\* one session from its first stage on, the registry left as constructed
SessionStart ==
    /\ SessionInit /\ RegistryInit /\ WsIdle
    /\ sources = OneSource
    /\ call_result = NotLooked
    /\ WsDiscoveryNew
    /\ EncoderIdle
    /\ LibIdle

SessionSpec == SessionStart /\ [][SessionNext]_vars

FairSessionSpec ==
    /\ SessionSpec
    /\ WF_vars(MainTask)
    /\ WF_vars(Tick)
    /\ WF_vars(CancelPump)
    /\ WF_vars(Join)

-----------------------------------------------------------------------------
(* Properties of the session controller *)

TooManyMsg == "Too many bad transmissions to display host"
InLoop == pc \in {"poll", "sleep", "encode", "send"}

\* a step in which send_screen_data returns an error
SendFailedStep == pc = "send" /\ pc' # "send" /\ streak_fails' > 0
\* a step in which send_screen_data returns success
SendSucceededStep == pc = "send" /\ pc' # "send" /\ streak_fails' = 0
\* the streak, this failure included, has 5 failures and is 5 seconds old
StreakOverThreshold ==
    streak_fails' >= 5 /\ streak_age # <<>> /\ streak_age[1] >= 5

\* C3: the session ends for too many bad transmissions only on a send
\* failure whose streak has at least 5 consecutive failures and began at
\* least 5 seconds before; any earlier send failure leaves the loop running.
C3_NoEarlyTermination ==
    [][ /\ (err' = TooManyMsg /\ err # TooManyMsg)
            => (SendFailedStep /\ StreakOverThreshold)
        /\ (SendFailedStep /\ ~StreakOverThreshold)
            => (pc' = "poll" /\ stopped' = stopped /\ err' = err) ]_vars

\* C3 witness: the session was ended by the threshold
C3_Witness == err = TooManyMsg /\ pc = "close_host" /\ streak_fails >= 5

\* C4: with a transport failing every send and a capture surface always
\* Ready with bytes, the first send failure at which the streak has 5
\* failures and is 5 seconds old sets the stop flag and leaves the loop, and
\* the main task eventually returns a failure.
C4_FailingTransportTerminates ==
    /\ [][ (SendFailedStep /\ StreakOverThreshold)
            => (stopped' /\ err' = TooManyMsg /\ pc' = "close_host") ]_vars
    /\ (send_mode = "always_fail" /\ screen_mode = "always_ready" /\ InLoop)
          ~> (screen_result = "Err")

\* C4 witness: the always-failing run has returned its failure
C4_Witness ==
    /\ send_mode = "always_fail" /\ screen_mode = "always_ready"
    /\ err = TooManyMsg /\ screen_result = "Err" /\ stopped

\* C5: a successful send clears the first-failure time and zeroes the
\* count, and the first failure after it opens a window that starts at
\* that failure with a count of one.
C5_SuccessResetsStreak ==
    [][ /\ SendSucceededStep
            => (bad_transmission_start' = <<>> /\ bad_transmission_count' = 0)
        /\ (SendFailedStep /\ streak_fails = 0)
            => (bad_transmission_start' = <<0>> /\ bad_transmission_count' = 1) ]_vars

\* C5 witness: a streak was ended by a success and a new failure has come
C5_Witness ==
    /\ had_reset /\ streak_fails = 1 /\ pc = "poll"
    /\ bad_transmission_count = 1 /\ bad_transmission_start = <<0>>

\* C6: a get_ready() error ends the polling: the loop is left at once.
C6_PollErrorEndsLoop ==
    [][ (pc = "poll" /\ last_poll # "Err" /\ last_poll' = "Err")
            => pc' = "close_host" ]_vars

\* C7: once the capture handle exists, the main task returns only after
\* close() was called on the transport and on the capture handle.
C7_BothClosedOnExit ==
    (pc \in {"task_done", "returned"} /\ screen_st # "none")
        => (host_closes >= 1 /\ screen_st = "closed")

\* C8: with the stop flag set, the end of a NotReady sleep and the end of a
\* send both leave the loop.
C8_StopObservedAtBoundary ==
    [][ (stopped /\ pc \in {"sleep", "send"} /\ pc' # pc)
            => pc' = "close_host" ]_vars

\* C9: a cancel message accepted while the session streams leads to the
\* stop flag being set, the loop left and transport and capture closed.
C9_CancelEndsSession ==
    (cancel_rx > 0 /\ InLoop)
        ~> (stopped /\ host_closes >= 1 /\ screen_st = "closed")

\* a step in which the transport's background task finishes with an error
BackgroundFailsStep == bg_result = "none" /\ bg_result' = "Err"

\* C17: the background task's failure changes neither the stop flag nor
\* anything of the main task; with the background task failed, the flag is
\* set only by the loop itself (capture finished, too many send failures)
\* or by a received cancel, and the loop is left only by its own exits
\* (those two, the flag seen after a NotReady delay, an encode error).
C17_BackgroundFailureDoesNotStop ==
    [][ /\ BackgroundFailsStep
               => UNCHANGED <<pc, stopped, err, host_closes, screen_st,
                              screen_result, bad_transmission_start,
                              bad_transmission_count, last_poll, cancel_rx>>
        /\ (bg_result' = "Err" /\ ~stopped /\ stopped')
               => \/ pc = "poll" /\ last_poll' = "Finished"
                  \/ SendFailedStep /\ err' = TooManyMsg
                  \/ cancel_rx' < cancel_rx
        /\ (bg_result = "Err" /\ InLoop /\ ~InLoop')
               => \/ pc = "poll" /\ last_poll' = "Finished"
                  \/ SendFailedStep /\ err' = TooManyMsg
                  \/ pc = "sleep" /\ stopped
                  \/ pc = "encode" /\ err' = "Failed to encode screen data" ]_vars

\* C17 witness: the background task has failed, the stop flag is clear and
\* the main task is streaming: it is about to send a frame
C17_Witness ==
    /\ bg_result = "Err"
    /\ ~stopped
    /\ pc = "send"
    /\ last_poll = "Ready"

-----------------------------------------------------------------------------
(* Properties of the registry *)

\* the task drives a connection or a session for its device
Active(t) == waiter[t].st \in {"connect", "session"}
\* a step in which disconnect_device queues its cancel message for task t
CancelQueuedStep(t) == cancel_q'[t] > cancel_q[t]

\* C1: no device_id is a key of available[discovery_id] and of
\* in_use[discovery_id] at the same time.
C1_AtMostOneOwnership ==
    \A s \in DiscoveryIds, d \in DeviceIds :
        ~(available[s][d] # NoRef /\ in_use[s][d] # NoRef)

\* C2: connect() or the session controller never runs for a device while an
\* earlier connection or session of the same device has not ended.
C2_OneSessionPerDevice ==
    \A t, u \in Tasks :
        (t # u /\ Active(t) /\ Active(u))
            => <<waiter[t].disc, waiter[t].dev>> # <<waiter[u].disc, waiter[u].dev>>

\* C10 as stated: when disconnect_device returns success the device's entry
\* is absent from in_use.
C10_EntryGoneOnReturn ==
    [][ \A t \in Tasks :
            CancelQueuedStep(t) => in_use'[waiter[t].disc][waiter[t].dev] = NoRef ]_vars

\* C10 amended: a successful disconnect_device queues the cancel message and
\* leaves in_use as it is, the device's entry included; an entry leaves
\* in_use only in the last step of a task of that device, after its
\* connect() failed or its session controller returned.
C10_EntryRemovedBySessionTask ==
    [][ /\ \A t \in Tasks :
               CancelQueuedStep(t)
                   => (in_use' = in_use /\ in_use[waiter[t].disc][waiter[t].dev] = t)
        /\ \A s \in DiscoveryIds, d \in DeviceIds :
               (in_use[s][d] # NoRef /\ in_use'[s][d] = NoRef)
                   => \E t \in Tasks :
                         /\ waiter[t].st \in {"rm_in_use_session", "rm_in_use_connect"}
                         /\ waiter[t].disc = s /\ waiter[t].dev = d
                         /\ waiter'[t].st = "unused" ]_vars

\* C10 witness: a disconnect has succeeded for a running session and the
\* entry is still in in_use
C10_Witness ==
    \E t \in Tasks :
        /\ waiter[t].st = "session" /\ cancel_q[t] > 0
        /\ in_use[waiter[t].disc][waiter[t].dev] = t

-----------------------------------------------------------------------------
(* Properties of the registry: the life of an in_use entry *)

\* C11: a device is in in_use only once its connect() has returned success:
\* no state shows an in_use entry whose task is still waiting for connect()
\* or has seen connect() fail.
C11_InUseOnlyAfterConnect ==
    \A t \in Tasks :
        (waiter[t].st # "unused" /\ in_use[waiter[t].disc][waiter[t].dev] = t)
            => waiter[t].st \notin {"connect", "rm_in_use_connect"}

\* the task of device d under discovery s is past connect() or its session
\* and has its removal from in_use left to do
RemovalDue(t, s, d) ==
    /\ waiter[t].st \in {"rm_in_use_session", "rm_in_use_connect"}
    /\ waiter[t].disc = s
    /\ waiter[t].dev = d

\* C12: once connect() has failed or the session has ended, the device's
\* entry is eventually removed from in_use (the task's last step, which also
\* broadcasts the change).
C12_EntryEventuallyRemoved ==
    \A t \in Tasks, s \in DiscoveryIds, d \in DeviceIds :
        RemovalDue(t, s, d) ~> (in_use[s][d] = NoRef)

-----------------------------------------------------------------------------
(* Properties of the registry: discovery snapshots *)

\* the device ids that are keys of one discovery's device map
Keys(m) == {d \in DeviceIds : m[d] # NoRef}

\* the steps a snapshot can be: the take channels and the blocked callers
\* are as before and available or the waiters have changed (implied by a
\* Snapshot step that changes anything; it spares evaluating Snapshot on
\* every other step)
SnapshotFrame ==
    /\ take_q' = take_q /\ take_blocked' = take_blocked
    /\ cancel_blocked' = cancel_blocked
    /\ available' # available \/ waiter' # waiter

\* C13: processing a snapshot never adds, removes or alters an entry of
\* in_use (nor its cancel channel, nor the task behind it); with A taken
\* from a source that listed [A, B], a snapshot [B] leaves in_use with
\* exactly A and available with exactly B.
C13_SnapshotLeavesInUse ==
    [][ SnapshotFrame =>
          \A s \in DiscoveryIds, devs \in SUBSET DeviceIds :
              Snapshot(s, devs)
                  => /\ in_use' = in_use
                     /\ cancel_q' = cancel_q
                     /\ \A t \in Tasks :
                            waiter[t].st \notin {"unused", "wait_take"}
                                => waiter'[t] = waiter[t]
                     /\ (Keys(in_use[s]) = {"A"} /\ devs = {"B"})
                            => (Keys(in_use'[s]) = {"A"} /\ Keys(available'[s]) = {"B"}) ]_vars

\* C13 witness: A is session-owned and in in_use, and the source's
\* available set is exactly B, as after the snapshot [B]
C13_Witness ==
    \E t \in Tasks :
        /\ waiter[t] = [st |-> "session", disc |-> "usb", dev |-> "A"]
        /\ Keys(in_use["usb"]) = {"A"}
        /\ in_use["usb"]["A"] = t
        /\ Keys(available["usb"]) = {"B"}
        /\ waiter[available["usb"]["B"]].st = "wait_take"

\* SnapshotFrame, narrowed by what else a Snapshot step leaves alone and by
\* where it can leave a task (implied by such a step as well)
SnapshotShape ==
    /\ SnapshotFrame
    /\ cancel_q' = cancel_q /\ in_use' = in_use
    /\ \A t \in Tasks :
           waiter'[t] = waiter[t] \/ waiter'[t].st \in {"wait_take", "unused"}

\* C14: after a snapshot for discovery s has been processed, available[s]
\* holds exactly the snapshot's device ids, each with a fresh candidate whose
\* task waits for a take, and the available sets of the other discoveries
\* are as they were.
C14_SnapshotReplacesAvailable ==
    [][ SnapshotShape =>
          \A s \in DiscoveryIds, devs \in SUBSET DeviceIds :
              Snapshot(s, devs)
                  => /\ Keys(available'[s]) = devs
                     /\ \A d \in devs :
                            /\ waiter'[available'[s][d]] =
                                   [st |-> "wait_take", disc |-> s, dev |-> d]
                            /\ take_q'[available'[s][d]] = 0
                     /\ \A o \in DiscoveryIds \ {s} : available'[o] = available[o] ]_vars

\* C14 witness: both discoveries have had a snapshot [A] processed, and each
\* one's available set holds its own candidate for A
C14_Witness ==
    /\ sources = TwoSources
    /\ Keys(available["usb"]) = {"A"}
    /\ Keys(available["ws"]) = {"A"}
    /\ available["usb"]["A"] # available["ws"]["A"]
    /\ waiter[available["ws"]["A"]].disc = "ws"

\* the candidate of task t has been replaced by a newer snapshot (or dropped)
\* while its waiter has not received a take
Superseded(t) ==
    /\ waiter[t].st = "wait_take"
    /\ available[waiter[t].disc][waiter[t].dev] # t

\* C15: a candidate replaced by a newer snapshot before its waiter received
\* a take is discarded: its waiter never goes on to the removal from
\* available, the in_use insert and connect(); it only ends (or its slot is
\* given to a new candidate).
C15_ReplacedCandidateDiscarded ==
    [][ \A t \in Tasks :
            Superseded(t) => waiter'[t].st \in {"wait_take", "unused"} ]_vars

-----------------------------------------------------------------------------
(* Properties of the registry: what the calls return *)

\* C16: a call for an absent entry and a call whose channel is closed both
\* fail, and the caller can tell the two failures apart: no return of
\* disconnect_device is at once the return for an absent entry and the
\* return for an entry whose cancel channel is closed.
C16_DistinguishableErrors ==
    [][ /\ \A s \in DiscoveryIds, d \in DeviceIds :
               (\/ InitializeDeviceNotFound(s, d)
                \/ DisconnectDeviceNotFound(s, d)
                \/ DisconnectDeviceSignalFailed(s, d)) => call_result' # OkUnit
        /\ \A s, s2 \in DiscoveryIds, d, d2 \in DeviceIds :
               ~(DisconnectDeviceNotFound(s, d) /\ DisconnectDeviceSignalFailed(s2, d2)) ]_vars

-----------------------------------------------------------------------------
(* Properties of the WebSocket transport *)

\* the frame that echoes the key the source sent
EchoFrame == Frame("ResponseProtocolInit", ProtocolInit(InitKey))

\* C18: initialize() returns success only if the peer has sent a
\* ProtocolInit response that carries the very key the source sent.
C18_InitOkOnlyOnEchoedKey ==
    init_ret = "Ok" => \E i \in 1..Len(peer_sent) : peer_sent[i] = EchoFrame

\* C18 witness: initialize() has returned success after the peer also sent
\* a response with another key
C18_Witness ==
    /\ init_ret = "Ok"
    /\ \E i \in 1..Len(peer_sent) :
           peer_sent[i] = Frame("ResponseProtocolInit", ProtocolInit("another key"))

\* the peer's answer to the init request is not the echo of the key: it
\* carries another key or is a message of another type
WrongAnswer == init_answer # <<>> /\ init_answer[1] # EchoFrame

\* C19: when the peer answers the init request with another key or with a
\* message of another type, initialize() returns an error: it neither
\* succeeds nor keeps waiting.
C19_WrongAnswerFailsInit ==
    WrongAnswer ~> (init_ret \notin {"none", "Ok"})

\* the payload p was sent by the peer in a DisplayParametersUpdate
SentAsDisplayParameters(p) ==
    \E i \in 1..Len(peer_sent) : peer_sent[i] = Frame("DisplayParametersUpdate", p)

\* C20: get_display_config() completes only with the parameters of a
\* DisplayParametersUpdate the peer sent, and nothing but such parameters is
\* ever queued for it: a SetEncodingResponse, a device-info response or a
\* protocol-init response is never delivered to the call.
C20_ConfigOnlyFromParametersUpdate ==
    /\ (config_ret # <<>> /\ config_ret[1] = "Ok")
           => SentAsDisplayParameters(config_ret[2])
    /\ \A i \in 1..Len(ConfigQueue) : SentAsDisplayParameters(ConfigQueue[i])

\* a frame the pump has no queue for: a variant without a delivery queue, a
\* payload that does not decode, a frame that is not a binary message
Unexpected(f) ==
    \/ f.kind \in {"ResponsePreInit", "Undecodable", "NotBinary"}
    \/ ws_impl = "transport.rs" /\ f.kind = "SetEncodingResponse"

\* the pump takes the frame at the head of the socket
BgTakesFrame == BgHasFrame /\ ws_rx' = Tail(ws_rx)

\* C21: the pump drops an unexpected inbound frame and goes on: after it has
\* taken such a frame it is still running, so the frames behind it are still
\* routed to their queues.
C21_UnexpectedDroppedPumpGoesOn ==
    [][ (BgTakesFrame /\ Unexpected(Head(ws_rx))) => ws_bg' = "running" ]_vars

\* C22: background() can be consumed once: no second pump is ever started,
\* and a call made after the context was taken returns Err(Unknown) at once
\* and leaves the running pump, the socket and the queues as they were.
C22_BackgroundConsumedOnce ==
    [][ /\ pumps' <= 1
        /\ (WsBackgroundCall /\ ~background_context)
               => /\ background_ret' = "Err(Unknown)"
                  /\ pumps' = pumps
                  /\ UNCHANGED bgVars ]_vars

\* C22 witness: a second call has returned its error, and the one pump runs
\* and has routed the peer's echo to its queue
C22_Witness ==
    /\ background_ret = "Err(Unknown)"
    /\ pumps = 1
    /\ ws_bg = "running"
    /\ rx_protocol_init # <<>>

-----------------------------------------------------------------------------
(* Properties of the WebSocket discovery *)

\* C23: an inbound connection is a candidate (held in current_connections or
\* yielded by the discovery stream) only if its reply to the pre-init
\* request was a pre-init response.
C23_ListedOnlyAfterPreInitResponse ==
    \A c \in current_connections \cup listed : pre_reply[c] = "ResponsePreInit"

-----------------------------------------------------------------------------
(* Properties of the ffmpeg encoder *)

\* the configurations handed to the backend so far, in order
Attempted == [i \in 1..Len(attempts) |-> attempts[i].config]

IsPrefix(a, b) == Len(a) <= Len(b) /\ \A i \in 1..Len(a) : a[i] = b[i]

\* the N*M configurations of one catalogue tuple, all pixel formats of the
\* first option set, then all of the second, and so on
TupleExpansion(set) ==
    [k \in 1..(set.encoder_option_sets * set.pixel_formats) |->
        [encoder_name |-> set.encoder_name, encoder_family |-> set.encoder_family,
         encoder_options |-> (k - 1) \div set.pixel_formats,
         pixel_format |-> (k - 1) % set.pixel_formats]]

\* the expansion of a catalogue: its tuples' expansions, in catalogue order
RECURSIVE CatalogueExpansion(_)
CatalogueExpansion(catalogue) ==
    IF catalogue = <<>> THEN <<>>
    ELSE TupleExpansion(Head(catalogue)) \o CatalogueExpansion(Tail(catalogue))

\* C24: iterating a catalogue tuple of N option sets and M pixel formats
\* yields exactly its N*M configurations, pixel formats innermost, and then
\* ends: the probe never stops on the way, what it has been given so far is
\* the beginning of the expansion, and when it is done it is all of it.
C24_ExpansionIsProduct ==
    /\ enc_pc # "panic"
    /\ IsPrefix(Attempted, CatalogueExpansion(configuration))
    /\ enc_pc = "probed" => Attempted = CatalogueExpansion(configuration)

\* the (encoder_name, encoder_family) pair of configuration c is in the
\* preference list
InPreferenceList(c) ==
    [encoder_name |-> c.encoder_name, encoder_family |-> c.encoder_family]
        \in preferred_encoders.list

\* the entries of the configured catalogue's expansion whose pair is in the
\* preference list, in catalogue order
MatchingEntries == SelectSeq(CatalogueExpansion(configuration), InPreferenceList)

NonEmptyPreference == preferred_encoders.some /\ preferred_encoders.list # {}

\* C25: given a non-empty preference list, every configuration init attempts
\* has its (encoder_name, encoder_family) pair in the list, and the attempts
\* are the matching entries of the configured catalogue's expansion in
\* catalogue order: a beginning of them while init runs, all of them when
\* init fails.
C25_AttemptsAreMatchingEntries ==
    NonEmptyPreference
        => /\ \A i \in 1..Len(attempts) : InPreferenceList(attempts[i].config)
           /\ IsPrefix(Attempted, MatchingEntries)
           /\ enc_pc = "Err" => Attempted = MatchingEntries

\* C25 witness: init has failed under a non-empty preference list after two
\* or more attempts, and the catalogue holds entries the list leaves out
C25_Witness ==
    /\ NonEmptyPreference
    /\ enc_pc = "Err"
    /\ Len(attempts) >= 2
    /\ Len(MatchingEntries) < Len(CatalogueExpansion(configuration))

\* init was given no preference list, or an empty one
NoPreference == ~preferred_encoders.some \/ preferred_encoders.list = {}

\* C26: given an empty or an absent preference list, the configurations init
\* attempts are the full expansion of the configured catalogue in catalogue
\* order: a beginning of it while init runs, all of it when init fails.
C26_NoPreferenceTriesConfiguredCatalogue ==
    NoPreference
        => /\ IsPrefix(Attempted, CatalogueExpansion(configuration))
           /\ enc_pc = "Err" => Attempted = CatalogueExpansion(configuration)

\* Scenario C: the catalogue [(X, fmtA), (X, fmtB), (Y, fmtA)]: X with one
\* option set and two pixel formats, Y with one option set and one format
ScenarioC ==
    << ConfigurationSet("X", "hvc1", 1, 2), ConfigurationSet("Y", "hvc1", 1, 1) >>

\* the backend has accepted (Y, fmtA) and nothing else
BackendAcceptsOnlyY ==
    \A i \in 1..Len(attempts) :
        attempts[i].ok <=> attempts[i].config = CatalogueExpansion(ScenarioC)[3]

\* the preference list leaves the catalogue of Scenario C whole: there is
\* none, or it is empty, or it names both X and Y
PreferenceKeepsScenarioC ==
    \/ NoPreference
    \/ \A i \in 1..Len(CatalogueExpansion(ScenarioC)) :
           InPreferenceList(CatalogueExpansion(ScenarioC)[i])

\* C27: init attempts the configurations in catalogue-expansion order and
\* stops at the first one the backend accepts: with the catalogue of
\* Scenario C and a backend that accepts only (Y, fmtA), once init has
\* returned it has attempted exactly X/fmtA, X/fmtB, Y/fmtA, has returned
\* success with encoder_name = Y and keeps that encoder.
C27_ScenarioC ==
    (/\ configuration = ScenarioC
     /\ PreferenceKeepsScenarioC
     /\ BackendAcceptsOnlyY
     /\ enc_pc \in {"Ok", "Err"})
        => /\ Attempted = CatalogueExpansion(ScenarioC)
           /\ init_result = <<"Ok", "Y", "hvc1">>
           /\ enc_state = <<CatalogueExpansion(ScenarioC)[3]>>

\* the sequence init goes through: the matching entries of the configured
\* catalogue under a preference list, the built-in catalogue without one
InitSequence ==
    IF preferred_encoders.some THEN MatchingEntries
                               ELSE CatalogueExpansion(GetEncoders)

\* init has returned its failure after attempting every entry of its
\* sequence once, in order, each rejected by the backend
FailedAfterAllRejected ==
    /\ enc_pc = "Err"
    /\ Attempted = InitSequence
    /\ \A i \in 1..Len(attempts) : ~attempts[i].ok

\* C28: on a finite catalogue init always returns, and when what it returns
\* is the no-usable-encoder failure, every configuration of its sequence has
\* been attempted exactly once and rejected by the backend.
C28_FailsOnlyAfterAllAndTerminates ==
    (enc_pc = "init") ~> (enc_pc = "Ok" \/ FailedAfterAllRejected)

-----------------------------------------------------------------------------
(* Properties of the streaming loop under a scripted capture surface *)

\* Scenario B: NotReady three times, then Ready once with 1024 bytes
ScenarioB == Script(3, 1024)

\* the calls Scenario B is to produce: three delays of 100 ms, one encode
\* of the 1024 bytes, one send_screen_data of their encoding
ScenarioBCalls ==
    <<LoopCall("sleep", 100), LoopCall("sleep", 100), LoopCall("sleep", 100),
      LoopCall("encode", 1024), LoopCall("send_screen_data", 1024)>>

\* the surface has gone through all of Scenario B and the loop has come
\* back to it after the frame
ScenarioBPlayed ==
    /\ Scripted
    /\ scenario = ScenarioB
    /\ script_pos >= Len(ScenarioB)
    /\ pc \notin {"encode", "send"}
    /\ err = "None"

\* C29: when the capture surface reports NotReady three times and then
\* Ready once with 1024 bytes, the controller sleeps 100 ms after each
\* NotReady and then makes exactly one encode, of exactly those 1024
\* bytes, followed by exactly one send_screen_data; at no point has it
\* made a call outside that sequence.
C29_ScenarioB ==
    (Scripted /\ scenario = ScenarioB)
        => /\ IsPrefix(calls, ScenarioBCalls)
           /\ ScenarioBPlayed => calls = ScenarioBCalls

C29_Witness ==
    /\ ScenarioBPlayed
    /\ calls = ScenarioBCalls
    /\ last_poll = "Finished"
    /\ pc = "returned"

-----------------------------------------------------------------------------
(* Properties of the set-up stages *)

\* the set-up call that failed, if one has
FailedCall ==
    {i \in 1..Len(setup_calls) : ~setup_calls[i].ok}

\* initialize() or get_display_config() has failed in this session
HandshakeFailed ==
    \E i \in FailedCall : setup_calls[i].call \in {"initialize", "get_display_config"}

\* the calls of a session whose initialize() failed, and of one whose
\* get_display_config() failed: the failing call once, then close
InitializeFailedCalls ==
    <<Call("initialize", FALSE), Call("close", TRUE)>>
DisplayConfigFailedCalls ==
    <<Call("initialize", TRUE), Call("get_display_config", FALSE), Call("close", TRUE)>>

\* C30: when initialize() or get_display_config() fails the session is
\* over at once: the failing call has been made once, the transport has
\* been closed once, the screen task has returned a failure, and neither
\* the capture surface nor the encoder nor the streaming loop has been
\* touched, then or later.
C30_HandshakeFailureAborts ==
    HandshakeFailed
        => /\ setup_calls \in {InitializeFailedCalls, DisplayConfigFailedCalls}
           /\ host_closes = 1
           /\ screen_result = "Err"
           /\ pc \in {"task_done", "returned"}
           /\ screen_st = "none"
           /\ last_poll = "none"
           /\ calls = <<>> /\ data = <<>> /\ encoded_data = <<>>
           /\ script_pos = 0

C30_Witness ==
    /\ setup_calls = DisplayConfigFailedCalls
    /\ pc = "returned"
    /\ screen_result = "Err"
    /\ host_closes = 1

-----------------------------------------------------------------------------
(* Properties of a failed encode *)

EncodeFailedMsg == "Failed to encode screen data"

\* an encode of this session has failed
EncodeFailed == err = EncodeFailedMsg

\* C31: once encode has failed for a frame the streaming loop is over:
\* the task is past the loop and never back in it, so no send_screen_data
\* is made for that frame and no further encode is attempted; nothing
\* encoded is waiting to be sent, the failed encode is the last call of
\* the loop, and the screen task's result is a failure.
C31_EncodeFailureAbortsLoop ==
    EncodeFailed
        => /\ pc \in {"close_host", "close_screen", "task_done", "returned"}
           /\ data = <<>> /\ encoded_data = <<>>
           /\ Scripted => (calls # <<>> /\ calls[Len(calls)].call = "encode")
           /\ screen_result \in {"none", "Err"}
           /\ pc \in {"task_done", "returned"} => screen_result = "Err"

C31_Witness ==
    /\ EncodeFailed
    /\ Scripted
    /\ calls # <<>> /\ calls[Len(calls)].call = "encode"
    /\ pc = "returned"
    /\ screen_result = "Err"

-----------------------------------------------------------------------------
(* Properties of the polling discovery *)

\* the snapshots due: the initial one, and one for each completed sleep
\* whose discovery has returned
SnapshotsDue ==
    CASE poll_pc = "initial"  -> 0
      [] poll_pc = "sleep"    -> poll_sleeps + 1
      [] poll_pc = "discover" -> poll_sleeps

\* C32: a PollingDiscovery stream yields its initial snapshot before any
\* interval sleep, then exactly one snapshot for each interval sleep,
\* whether or not the device list has changed, and is never at an end:
\* it is always either about to yield or about to sleep.
C32_PollingEmitsEveryTick ==
    /\ poll_pc \in {"initial", "sleep", "discover"}
    /\ Len(poll_emitted) = SnapshotsDue
    /\ poll_sleeps > 0 => Len(poll_emitted) >= 1
    /\ poll_pc = "initial" => ENABLED PollingInitial
    /\ poll_pc = "discover" => ENABLED PollingDiscover

\* two ticks have gone by with the device list unchanged: three equal snapshots
C32_Witness ==
    /\ poll_sleeps = 2
    /\ Len(poll_emitted) = 3
    /\ poll_emitted[1] = poll_emitted[2]
    /\ poll_emitted[2] = poll_emitted[3]
    /\ poll_emitted[1] # {}

-----------------------------------------------------------------------------
(* Properties of the registry's readers *)

\* the stream yields its first event in this step
FirstStatusEvent == sub_events = <<>> /\ sub_events' # <<>>

\* what the stream has yielded so far: the initial event, then change events
InitialThenChanges ==
    \A i \in 1..Len(sub_events) :
        sub_events[i] = IF i = 1 THEN "initial" ELSE "change"

\* C33: a new subscriber of the device-status stream gets as its first
\* event the current registry state, and that event waits for no change
\* notification: it can be yielded as soon as the maps can be read, with
\* nothing queued in the receiver; the change events come only after it.
C33_FirstEventIsCurrentState ==
    /\ [](/\ InitialThenChanges
          /\ sub_pc = "initial" => sub_events = <<>>
          /\ sub_pc = "live" => sub_events # <<>>
          /\ (sub_pc = "initial" /\ ReadGuards) => ENABLED StatusStreamInitial)
    /\ [][FirstStatusEvent
            => /\ sub_events' = <<"initial">>
               /\ device_status' = <<DeviceCollectionStatus>>
               /\ UNCHANGED <<available, in_use, sub_pending>>]_vars

\* the first event has been yielded with the registry holding a device and
\* with no change notification received
C33_Witness ==
    /\ sub_events = <<"initial">>
    /\ sub_pending = 0
    /\ device_status = <<DeviceCollectionStatus>>
    /\ DeviceCollectionStatus.connectable_devices # {}
    /\ DeviceCollectionStatus.in_use_devices # {}

\* a take of device p is in flight: its waiter has removed the device
\* from available and has not yet inserted it into in_use
TakeInFlight(p) ==
    \E t \in Tasks :
        /\ waiter[t].st = "insert_in_use"
        /\ waiter[t].disc = p[1]
        /\ waiter[t].dev = p[2]

\* a reader is handed a status in this step
StatusRead ==
    \/ sub_events' # sub_events
    \/ device_status' # device_status

\* C35: a status read, by get_device_status or by an event of the status
\* stream, made while a take of a device is in flight finds that device
\* in one of the two maps: connectable or in use.
C35_TakeIsAtomicForReaders ==
    [][StatusRead
         => \A p \in DiscoveryIds \X DeviceIds :
              TakeInFlight(p)
                 => p \in device_status'[1].connectable_devices
                            \cup device_status'[1].in_use_devices]_vars

-----------------------------------------------------------------------------
(* Properties of the accessory bring-up *)

\* the bring-up has returned StrategyFailed from its re-scan loop
RescanFailed ==
    usb_result = <<UsbReturn("StrategyFailed", "re-scan")>>

\* what holds of the re-scan at every moment: one interval delay before
\* each re-scan, no more re-scans than the retry count, a device is taken
\* only in accessory mode and with the serial number of the device that
\* was started, and StrategyFailed comes out of the loop only after every
\* re-scan of the retry count found nothing
RescanBounded ==
    /\ usb_scans <= RetryCount(usb_impl)
    /\ usb_scans + retries_left = RetryCount(usb_impl) - (IF usb_pc = "scan" THEN 1 ELSE 0)
    /\ usb_waits = usb_scans + (IF usb_pc = "scan" THEN 1 ELSE 0)
    /\ usb_found # <<>>
         => /\ usb_found[1].vendor_id = USB_ACCESSORY_VENDOR_ID
            /\ usb_found[1].product_id \in
                   {USB_ACCESSORY_DEVICE_ID, USB_ACCESSORY_DEVICE_ID_ADB_DEBUG}
            /\ target_device_serial # <<>>
                   => usb_found[1].serial_number = target_device_serial
            /\ usb_misses = usb_scans - 1
    /\ RescanFailed
         => /\ usb_scans = RetryCount(usb_impl)
            /\ usb_misses = usb_scans
            /\ usb_found = <<>>
    /\ (usb_found = <<>> /\ usb_pc = "done") => RescanFailed

FoundReady(i) == sink_calls[i].ready # <<>>

\* the i-th call is a read that found nothing new on the stream
ReadsNothingNew(i) ==
    /\ i \in 1..Len(sink_calls)
    /\ sink_calls[i].ready = <<>>

\* what the claim says of each call of the sink
SinkContract ==
    \A i \in 1..Len(sink_calls) :
        LET c == sink_calls[i] IN
        /\ (c.call = "get_latest_value_cloned" /\ FoundReady(i))
              => /\ c.ret = Some(c.ready[Len(c.ready)])
                 /\ (ReadsNothingNew(i + 1) /\ sink_calls[i + 1].call = "take_latest_value")
                       => sink_calls[i + 1].ret = c.ret
        /\ (c.call = "take_latest_value" /\ ReadsNothingNew(i + 1))
              => sink_calls[i + 1].ret = None

\* C36: get_latest_value_cloned with items ready on the stream returns the
\* last of them, a take_latest_value right after it returns the same item,
\* and a read after a take returns none as long as the stream has yielded
\* nothing new; after a take the sink holds no value.
C36_SinkKeepsLatest ==
    /\ SinkContract
    /\ (sink_calls # <<>> /\ sink_calls[Len(sink_calls)].call = "take_latest_value"
          /\ sink_calls[Len(sink_calls)].ret # Panicked)
          => latest_value = <<>>

\* the same over the streams that may be polled after their end
C36_OnPollableStreams == sink_kind # "unfused" => C36_SinkKeepsLatest

\* a step in which ComputedCell::get is served
GetServed == cell_calls' = cell_calls + 1 /\ cell_ret'.call = "get"

\* C40: get on a cell whose cached value has been overtaken by an
\* invalidation notification recomputes and returns the value compute_fn
\* gives now; with a cached value and no notification since it was
\* computed, get returns that value and does not run compute_fn.
C40_GetReturnsValidValue ==
    [][(GetServed /\ cached_value # <<>>)
         => IF invalidated_since
            THEN /\ cell_computes' = cell_computes + 1
                 /\ cell_ret'.ret = Some(cell_source)
            ELSE /\ cell_computes' = cell_computes
                 /\ cell_ret'.ret = Some(cached_value[1])]_vars

\* C37: once the main task has finished and closed the transport, the
\* controller returns to its caller, whatever the peer does from then on.
C37_ReturnNotHeldUp == (pc = "task_done") ~> (pc = "returned")

\* the inbound pump with no frame to read and the peer still connected has
\* no step to take
PumpWaitsForPeer ==
    (ws_bg = "running" /\ ws_rx = <<>> /\ peer_open) => ~ENABLED WsBackground

\* a step in which send_screen_data is called
SendCalled == send_calls' = send_calls + 1

\* C39: a send_screen_data call never aborts the process, and one that
\* returns Ok has put exactly one PutScreenData message on the socket,
\* carrying all the bytes of data and nothing else, whatever the length.
C39_SendsExactlyTheData ==
    [][SendCalled
         => /\ send_ret'.ret # "panic"
            /\ send_ret'.ret = "Ok"
                  => ws_tx' = Append(ws_tx, PutScreenData(Bytes(0, send_ret'.data_len)))
            /\ send_ret'.ret # "Ok" => ws_tx' = ws_tx]_vars

\* the same on ws_transport.rs alone
C39_OnWsTransportRs ==
    [][(SendCalled /\ ws_impl = "ws_transport.rs")
         => /\ send_ret'.ret # "panic"
            /\ send_ret'.ret = "Ok"
                  => ws_tx' = Append(ws_tx, PutScreenData(Bytes(0, send_ret'.data_len)))]_vars

\* C38: every initialize_device or disconnect_device call that waits on a
\* full take or cancel channel eventually returns, and with it the registry
\* lock it holds for reading becomes free for the snapshot listener and the
\* waiter tasks.
C38_CallsReturnAndLocksFree ==
    \A t \in Tasks :
        /\ (take_blocked[t] > 0) ~> (take_blocked[t] = 0 /\ AvailWriteFree)
        /\ (cancel_blocked[t] > 0) ~> (cancel_blocked[t] = 0 /\ InUseWriteFree)

====
